---- MODULE Spec2Model ----
(***************************************************************************)
(* Model of the digital-brain pipeline core:                               *)
(*   - postprocess_graph (pipeline/suggest_connections_digital_brain.py):  *)
(*     the edge merge engine, finalisation and min-similarity/top-K        *)
(*     pruning;                                                            *)
(*   - validate_graph (pipeline/brain/validate_suggestions.py).            *)
(* Python values are encoded as follows: None is the integer None; a dict  *)
(* is a record whose DOMAIN is its key set (Get is dict.get); a str used   *)
(* as a reason is the sequence of its words; an evidence value is tagged   *)
(* with its Python type (PyStr / PyList / absent key); node ids are        *)
(* integers ordered like the id strings; a float score is counted in       *)
(* hundredths.                                                             *)
(***************************************************************************)
EXTENDS Integers, Sequences, FiniteSets, TLC

VARIABLES
    pc,         \* position inside the function being run
    g_nodes,    \* graph["nodes"], as the set of node ids (id2node's keys)
    g_meta,     \* graph["_meta"] as read by step 7 of postprocess_graph
    g_edges,    \* graph["edges"]: the raw edges read so far, then the output
    raw_edges,  \* the raw edge list as given (graph["edges"] is overwritten)
    merged,     \* postprocess_graph's dict "merged", in insertion order
    new_edges,  \* postprocess_graph's list "new_edges" (step 6)
    v_pc,           \* position inside validate_graph
    v_nodes,        \* graph["nodes"] given to validate_graph (their ids)
    v_min_sim,      \* validate_graph's min_sim
    v_dedup,        \* validate_graph's dedup
    v_edges,        \* the edges of graph["edges"] read so far
    v_valid_nodes,  \* valid_nodes
    v_node_ids,     \* node_ids
    v_cleaned,      \* cleaned
    v_stats,        \* stats
    v_out,          \* the edges of the returned graph
    l_pc,       \* position inside validate_legacy
    l_min_sim,  \* validate_legacy's min_sim
    l_seen,     \* the sources of the mapping iterated so far
    l_src,      \* src of the current iteration
    l_read,     \* the items read so far, each with its source
    l_fixed,    \* fixed
    l_out,      \* out, in insertion order
    l_stats,    \* stats
    a_pc,        \* position inside analyze_ai
    a_stops,     \* the stopwords _load_stopwords returns
    a_found,     \* ids_ja_trobats
    a_pendents,  \* pendents (their ids, in order)
    a_attempt,   \* attempt
    a_hist,      \* how each call of the AI service ended, in order
    a_sleeps,    \* the backoff sleeps: after which attempt, which exponent
    a_last_err,  \* last_err
    a_response,  \* what the call gave after which analyze_ai returned
    a_result,    \* the list analyze_ai returned
    p_pc,      \* position inside process(), from the _meta block on
    p_graph,   \* graph
    p_report,  \* validation_report
    s_pc,       \* position inside save_graph / save_json
    s_fn,       \* which of the two functions is running
    s_data,     \* the graph / data to write
    s_written,  \* how much of the JSON text json.dump has written to f
    s_err,      \* the step that raised, if one did
    s_log,      \* what save_graph logged
    s_raised,   \* whether the exception reached the caller
    fs,         \* the files at the destination path and at the temporary path
    t_pc,       \* position inside tag_similarity
    t_n1,       \* n1: its "tags" and the words of its "contenido"
    t_n2,       \* n2
    t_cfg,      \* the tags_* weights of cfg
    t_score,    \* the score returned
    t_razones   \* razones

ppvars == <<pc, g_nodes, g_meta, g_edges, raw_edges, merged, new_edges>>

vvars == <<v_pc, v_nodes, v_min_sim, v_dedup, v_edges, v_valid_nodes,
           v_node_ids, v_cleaned, v_stats, v_out>>

lvars == <<l_pc, l_min_sim, l_seen, l_src, l_read, l_fixed, l_out, l_stats>>

avars == <<a_pc, a_stops, a_found, a_pendents, a_attempt, a_hist, a_sleeps,
           a_last_err, a_response, a_result>>

pvars == <<p_pc, p_graph, p_report>>

svars == <<s_pc, s_fn, s_data, s_written, s_err, s_log, s_raised, fs>>

tvars == <<t_pc, t_n1, t_n2, t_cfg, t_score, t_razones>>

vars == <<ppvars, vvars, lvars, avars, pvars, svars, tvars>>

\* what a step of each function leaves alone
pp_frame == <<vvars, lvars, avars, pvars, svars, tvars>>
v_frame == <<ppvars, lvars, avars, pvars, svars, tvars>>
l_frame == <<ppvars, vvars, avars, pvars, svars, tvars>>
a_frame == <<ppvars, vvars, lvars, pvars, svars, tvars>>
p_frame == <<ppvars, lvars, avars, tvars>>
s_frame == <<ppvars, vvars, lvars, avars, pvars, tvars>>
t_frame == <<ppvars, vvars, lvars, avars, pvars, svars>>

----------------------------------------------------------------------------
(* Bounds of the model *)

MaxEdges == 3        \* raw edges of one postprocess_graph call (merge runs)
MaxPruneEdges == 4   \* raw edges of one postprocess_graph call (pruning runs)
NumPruneNodes == 3   \* nodes of the graph in the pruning runs

----------------------------------------------------------------------------
(* Python values *)

None == -1000

\* a str that is no number, such as "abc", given as a score
NotANumber == -2000

IsNumber(x) == x # None

Get(d, k, default) == IF k \in DOMAIN d THEN d[k] ELSE default

PyStr(s) == [t |-> "str", v |-> s]
PyList(l) == [t |-> "list", v |-> l]
PyNone == [t |-> "none"]

Max2(a, b) == IF a >= b THEN a ELSE b

RECURSIVE SeqToSet(_)
SeqToSet(s) == IF s = <<>> THEN {} ELSE {Head(s)} \cup SeqToSet(Tail(s))

\* dict.fromkeys(l) followed by the "if r" filter: first occurrences, in order
RECURSIVE Unique(_, _)
Unique(s, seen) ==
    IF s = <<>> THEN <<>>
    ELSE IF Head(s) \in seen \/ Head(s) = <<>>
         THEN Unique(Tail(s), seen)
         ELSE <<Head(s)>> \o Unique(Tail(s), seen \cup {Head(s)})

----------------------------------------------------------------------------
(* config/text_normalization.py *)

\* _apply_safe_replacements on one word (whole-word, case-insensitive)
SafeReplace(w) ==
    CASE w = "uso" -> "ús"
      [] w = "asignatura" -> "assignatura"
      [] w = "violencia" -> "violència"
      [] OTHER -> w

\* the sentence-case rule: a listed term is capitalised at the start of the text
SentenceCase(w) ==
    CASE w = "assignatura" -> "Assignatura"
      [] w = "metodologia" -> "Metodologia"
      [] OTHER -> w

normalize_text(s) ==
    IF s = <<>> THEN s
    ELSE LET r == [i \in 1..Len(s) |-> SafeReplace(s[i])]
         IN  [i \in 1..Len(s) |-> IF i = 1 THEN SentenceCase(r[i]) ELSE r[i]]

\* str.lower() on one word
Lower(w) ==
    CASE w = "Enllaça" -> "enllaça"
      [] w = "Assignatura" -> "assignatura"
      [] w = "Metodologia" -> "metodologia"
      [] w = "Explicit" -> "explicit"
      [] OTHER -> w

\* "<w1> <w2>" in r.lower(), for a two-word needle
ContainsWords(r, w1, w2) ==
    \E i \in 1..(Len(r) - 1) : Lower(r[i]) = w1 /\ Lower(r[i + 1]) = w2

----------------------------------------------------------------------------
(* postprocess_graph: helpers *)

\* mutant: the ids are not sorted
sort_pair_unsorted(a, b) == <<a, b>>

sort_pair(a, b) == IF a <= b THEN <<a, b>> ELSE <<b, a>>

\* (x or "").strip().lower() on one evidence string
EvNorm(x) ==
    CASE x = " AI " -> "ai"
      [] x = "Explicit" -> "explicit"
      [] x = "  " -> ""
      [] OTHER -> x

\* alphabetical position of an evidence tag (sorted() on the evidence set)
EvRank(x) ==
    CASE x = "ai" -> 1
      [] x = "explicit" -> 2
      [] x = "tag" -> 3
      [] x = "tags" -> 4
      [] x = "tags_inferred" -> 5
      [] OTHER -> 6

RECURSIVE SortedEvidence(_)
SortedEvidence(S) ==
    IF S = {} THEN <<>>
    ELSE LET m == CHOOSE x \in S : \A y \in S : EvRank(x) <= EvRank(y)
         IN  <<m>> \o SortedEvidence(S \ {m})

\* step 2: the evidence set of a raw edge
EvidenceSet(e) ==
    LET ev == Get(e, "evidence", PyNone)
        ev_list == IF ev.t = "str" THEN <<ev.v>>
                   ELSE IF ev.t = "list" THEN ev.v ELSE <<>>
        given == {EvNorm(ev_list[i]) : i \in 1..Len(ev_list)} \ {""}
        base == IF given = {}
                THEN (IF Get(e, "dashes", FALSE) THEN {"ai"} ELSE {"explicit"})
                ELSE given
    IN  IF Get(e, "via_tags", <<>>) # <<>> THEN base \cup {"tags"} ELSE base

\* `ev_set == "ai"` / `ev_set == "explicit"`: a set compared with a str
SetEqualsStr(ev_set, s) == FALSE

MIN_REASON_WORDS == 8

reason_ok(reason) ==
    IF reason = <<>> THEN FALSE
    ELSE Len(reason) >= Max2(5, MIN_REASON_WORDS)

\* the notes of the graph: node id |-> its "tags" and "projects" lists
NodeTags(n) ==
    CASE n = 1 -> {"Ètica", "x"}
      [] n = 2 -> {"etica", "y"}
      [] OTHER -> {"x"}

NodeProjects(n) ==
    CASE n = 1 -> {" Tesi "}
      [] n = 2 -> {"tesi"}
      [] OTHER -> {}

\* _normalize_tag: strip, casefold, drop the combining marks
NormalizeTag(tag) ==
    CASE tag = "Ètica" -> "etica"
      [] OTHER -> tag

\* (p or "").strip().casefold()
NormalizeProject(p) ==
    CASE p = " Tesi " -> "tesi"
      [] OTHER -> p

compute_overlap(a_tags, b_tags) ==
    {NormalizeTag(x) : x \in a_tags} \cap {NormalizeTag(x) : x \in b_tags}

compute_project_overlap(a_projects, b_projects) ==
    {NormalizeProject(x) : x \in a_projects}
        \cap {NormalizeProject(x) : x \in b_projects}

\* mutant: only the source is looked up
EndpointMissingSource(nodes, e) == e.source \notin nodes

\* line 958: the raw edge is skipped when an endpoint is no node of the graph
EndpointMissing(nodes, e) == e.source \notin nodes \/ e.target \notin nodes

\* lines 976-997: the reason after normalisation and backfilling
BackfilledReason(e) ==
    LET reason == normalize_text(Get(e, "reason", <<>>))
        tags_overlap == compute_overlap(NodeTags(e.source), NodeTags(e.target))
        proj_overlap == compute_project_overlap(NodeProjects(e.source),
                                                NodeProjects(e.target))
        extras == (IF tags_overlap # {} THEN <<"tags", "comuns">> ELSE <<>>)
                  \o (IF proj_overlap # {} THEN <<"projectes", "comuns">> ELSE <<>>)
    IN  IF SetEqualsStr(EvidenceSet(e), "ai") /\ ~reason_ok(reason)
        THEN reason \o extras
        ELSE reason

\* lines 983-997: a purely-AI raw edge whose reason stays poor is discarded
Discarded(e) ==
    /\ SetEqualsStr(EvidenceSet(e), "ai")
    /\ ~reason_ok(normalize_text(Get(e, "reason", <<>>)))
    /\ ~reason_ok(BackfilledReason(e))

\* mutant: the record of the pair is never found
IndexOfNone(m, key) == 0

\* merged.get(key): position of the record of `key` in merged, 0 when there is none
IndexOf(m, key) ==
    IF \E i \in 1..Len(m) : m[i].key = key
    THEN CHOOSE i \in 1..Len(m) : m[i].key = key
    ELSE 0

\* lines 1041-1056: directionality of an entry
Directionality(entry) ==
    LET rs == entry.reasons
        to == \E i \in 1..Len(rs) : ContainsWords(rs[i], "enllaça", "a")
        by == \E i \in 1..Len(rs) :
                \/ ContainsWords(rs[i], "enllaçat", "per")
                \/ ContainsWords(rs[i], "referenciat", "per")
    IN  IF "explicit" \in entry.evidence /\ to
        THEN [directed |-> TRUE, direction_info |-> "source_to_target"]
        ELSE IF "explicit" \in entry.evidence /\ by
        THEN [directed |-> TRUE, direction_info |-> "target_to_source"]
        ELSE [directed |-> FALSE, direction_info |-> "undirected"]

\* lines 1003-1014: the record created for a pair seen for the first time
NewEntry(e) ==
    LET ev_set == EvidenceSet(e)
        reason == BackfilledReason(e)
        sim == Get(e, "similarity", None)
    IN  [source |-> e.source, target |-> e.target,
         evidence |-> ev_set,
         reasons |-> IF reason # <<>> THEN <<reason>> ELSE <<>>,
         similarity |-> IF IsNumber(sim) THEN sim
                        ELSE IF SetEqualsStr(ev_set, "explicit") THEN 100
                        ELSE None,
         score |-> Get(e, "score", None),
         tags_overlap |-> compute_overlap(NodeTags(e.source), NodeTags(e.target)),
         project_overlap |-> compute_project_overlap(NodeProjects(e.source),
                                                     NodeProjects(e.target))]

\* mutant: the last numeric similarity wins
MergeSimilarityLast(old, sim, ev_set) ==
    IF IsNumber(sim) THEN sim ELSE old

\* lines 1021-1028: the similarity of an entry after one more raw edge
MergeSimilarity(old, sim, ev_set) ==
    IF IsNumber(sim)
    THEN (IF old = None \/ sim > old THEN sim ELSE old)
    ELSE IF SetEqualsStr(ev_set, "explicit")
    THEN (IF old = None \/ old < 100 THEN 100 ELSE old)
    ELSE old

\* lines 1031-1033
MergeScore(old, sc) ==
    IF IsNumber(sc) THEN (IF old = None \/ sc > old THEN sc ELSE old) ELSE old

\* mutant: the evidence is overwritten
MergeEvidenceReplace(old, ev_set) == ev_set

\* line 1017
MergeEvidence(old, ev_set) == old \cup ev_set

\* lines 1015-1037: the entry of the pair after one more raw edge
MergedEntry(entry, e) ==
    LET ev_set == EvidenceSet(e)
        reason == BackfilledReason(e)
    IN  [entry EXCEPT
           !.evidence = MergeEvidence(@, ev_set),
           !.reasons = IF reason # <<>> THEN Append(@, reason) ELSE @,
           !.similarity = MergeSimilarity(@, Get(e, "similarity", None), ev_set),
           !.score = MergeScore(@, Get(e, "score", None)),
           !.tags_overlap = @ \cup compute_overlap(NodeTags(e.source),
                                                   NodeTags(e.target)),
           !.project_overlap = @ \cup compute_project_overlap(
                                   NodeProjects(e.source), NodeProjects(e.target))]

WithDirection(entry) ==
    LET d == Directionality(entry)
    IN  [k \in DOMAIN entry \cup {"directed", "direction_info"} |->
            IF k = "directed" THEN d.directed
            ELSE IF k = "direction_info" THEN d.direction_info
            ELSE entry[k]]

\* lines 956-1056: one iteration of the loop over the raw edges
MergeOne(nodes, m, e) ==
    IF EndpointMissing(nodes, e) \/ Discarded(e) THEN m
    ELSE LET key == sort_pair(e.source, e.target)
             i == IndexOf(m, key)
         IN  IF i = 0
             THEN Append(m, [key |-> key, entry |-> WithDirection(NewEntry(e))])
             ELSE [m EXCEPT ![i].entry = WithDirection(MergedEntry(@, e))]

RECURSIVE MergeAll(_, _, _)
MergeAll(nodes, m, edges) ==
    IF edges = <<>> THEN m
    ELSE MergeAll(nodes, MergeOne(nodes, m, Head(edges)), Tail(edges))

\* dashed whenever the AI is among the evidence
DashesAnyAi(evidence) == "ai" \in SeqToSet(evidence)

\* line 1062
Dashes(evidence) == evidence = <<"ai">>

\* lines 1059-1071: the final edge built from one merged entry
FinalEdge(m) ==
    LET evidence == SortedEvidence(m.evidence)
        rs == Unique([i \in 1..Len(m.reasons) |-> normalize_text(m.reasons[i])], {})
        reasons == IF rs = <<>> /\ "explicit" \in m.evidence
                   THEN <<<<"Explicit", "link", "between", "the", "two", "notes">>>>
                   ELSE rs
    IN  [k \in DOMAIN m \cup {"dashes", "arrow"} |->
            CASE k = "evidence" -> PyList(evidence)
              [] k = "dashes" -> Dashes(evidence)
              [] k = "reasons" -> reasons
              [] k = "arrow" -> IF m.directed THEN "end" ELSE "None"
              [] OTHER -> m[k]]

\* step 6: new_edges
BuildFinalEdges(m) == [i \in 1..Len(m) |-> FinalEdge(m[i].entry)]

----------------------------------------------------------------------------
(* postprocess_graph: step 7, pruning *)

\* graph["_meta"]: a key that is absent (or not an int) reads as None
NoMeta == [min_similarity_kept |-> None, topk_per_node |-> None]

\* mutant: an edge without similarity does not pass a minimum
keep_edge_strict(e, meta_min) ==
    IF meta_min = None THEN TRUE
    ELSE e.similarity # None /\ e.similarity >= meta_min

\* lines 1096-1103
keep_edge(e, meta_min) ==
    IF meta_min = None THEN TRUE
    ELSE e.similarity = None \/ e.similarity >= meta_min

\* lines 1113-1115
score_of(e) == IF e.similarity = None THEN -1 ELSE e.similarity

\* line 1118: the sort key (score_of(e), source, target), reverse=True
KeyGreater(x, y) ==
    \/ score_of(x) > score_of(y)
    \/ score_of(x) = score_of(y) /\ x.source > y.source
    \/ score_of(x) = score_of(y) /\ x.source = y.source /\ x.target > y.target

\* cap_count.get(n, 0)
CapGet(cap_count, n) == IF n \in DOMAIN cap_count THEN cap_count[n] ELSE 0

\* cap_count[n] = cap_count.get(n, 0) + 1
CapInc(cap_count, n) ==
    [k \in DOMAIN cap_count \cup {n} |->
        IF k = n THEN CapGet(cap_count, n) + 1 ELSE cap_count[k]]

\* mutant: the cap is never checked
can_take_always(e, cap_count, meta_topk) == TRUE

\* lines 1121-1125
can_take(e, cap_count, meta_topk) ==
    LET key == sort_pair(e.source, e.target)
    IN  CapGet(cap_count, key[1]) < meta_topk \/ CapGet(cap_count, key[2]) < meta_topk

\* lines 1127-1132: the greedy pass over prelim_sorted
RECURSIVE TopK(_, _, _, _)
TopK(prelim_sorted, cap_count, kept, meta_topk) ==
    IF prelim_sorted = <<>> THEN kept
    ELSE LET e == Head(prelim_sorted)
             key == sort_pair(e.source, e.target)
         IN  IF can_take(e, cap_count, meta_topk)
             THEN TopK(Tail(prelim_sorted),
                       CapInc(CapInc(cap_count, key[1]), key[2]),
                       Append(kept, e), meta_topk)
             ELSE TopK(Tail(prelim_sorted), cap_count, kept, meta_topk)

\* lines 1075-1134: graph["edges"] after pruning
Prune(edges, meta) ==
    LET meta_min == meta.min_similarity_kept
        meta_topk == meta.topk_per_node
        prelim == SelectSeq(edges, LAMBDA e : keep_edge(e, meta_min))
    IN  IF meta_min = None /\ meta_topk = None THEN edges
        ELSE IF meta_topk = None \/ meta_topk <= 0 THEN prelim
        ELSE TopK(SortSeq(prelim, KeyGreater), <<>>, <<>>, meta_topk)

\* lines 939-1139: the edge list postprocess_graph returns
postprocess_graph(nodes, edges, meta) ==
    Prune(BuildFinalEdges(MergeAll(nodes, <<>>, edges)), meta)

\* validate_graph is not running
ValidatorIdle ==
    /\ v_pc = "idle"
    /\ v_nodes = <<>>
    /\ v_min_sim = 0
    /\ v_dedup = TRUE
    /\ v_edges = <<>>
    /\ v_valid_nodes = <<>>
    /\ v_node_ids = {}
    /\ v_cleaned = <<>>
    /\ v_stats = <<>>
    /\ v_out = <<>>

LegacyIdle ==
    /\ l_pc = "idle"
    /\ l_min_sim = 0
    /\ l_seen = <<>>
    /\ l_src = None
    /\ l_read = <<>>
    /\ l_fixed = <<>>
    /\ l_out = <<>>
    /\ l_stats = <<>>

AnalyzeIdle ==
    /\ a_pc = "idle"
    /\ a_stops = {}
    /\ a_found = {}
    /\ a_pendents = <<>>
    /\ a_attempt = 0
    /\ a_hist = <<>>
    /\ a_sleeps = <<>>
    /\ a_last_err = "None"
    /\ a_response = [kind |-> "none"]
    /\ a_result = <<>>

\* a path that holds no file
NoFile == [exists |-> FALSE]

\* the destination path and the temporary path next to it
Paths == {[name |-> "OUT_JSON", tmp |-> t] : t \in BOOLEAN}

NoGraph == [nodes |-> <<>>, edges |-> <<>>]

\* process() has not reached the _meta block
ProcessIdle ==
    /\ p_pc = "idle"
    /\ p_graph = NoGraph
    /\ p_report = <<>>

\* neither save_graph nor save_json is running
SaveIdle ==
    /\ s_pc = "idle"
    /\ s_fn = "None"
    /\ s_data = NoGraph
    /\ s_written = 0
    /\ s_err = "None"
    /\ s_log = "None"
    /\ s_raised = FALSE
    /\ fs = [p \in Paths |-> NoFile]

\* tag_similarity is not running
TagsIdle ==
    /\ t_pc = "idle"
    /\ t_n1 = [tags |-> {}, contenido |-> <<>>]
    /\ t_n2 = [tags |-> {}, contenido |-> <<>>]
    /\ t_cfg = <<>>
    /\ t_score = 0
    /\ t_razones = <<>>

----------------------------------------------------------------------------
(* postprocess_graph as a process: one step per raw edge, then steps 6-7 *)

\* one iteration of `for e in graph.get("edges", [])` over the next raw edge
LoopStep(e) ==
    /\ pc = "loop"
    /\ raw_edges' = Append(raw_edges, e)
    /\ g_edges' = Append(g_edges, e)
    /\ merged' = MergeOne(g_nodes, merged, e)
    /\ UNCHANGED <<pc, g_nodes, g_meta, new_edges>>
    /\ UNCHANGED pp_frame

\* the raw edge list is exhausted: build the final edges and prune
Finish ==
    /\ pc = "loop"
    /\ new_edges' = BuildFinalEdges(merged)
    /\ g_edges' = Prune(new_edges', g_meta)
    /\ pc' = "done"
    /\ UNCHANGED <<g_nodes, g_meta, raw_edges, merged>>
    /\ UNCHANGED pp_frame

----------------------------------------------------------------------------
(* Merge runs: raw edges of every shape, in every order, no pruning (as in  *)
(* process(), which attaches _meta only after postprocess_graph returns)    *)

\* the node ids of the merge runs; NoNode is the id of no node
MergeNodeIds == {1, 2, 3}
NoNode == 0

R1 == <<"uso", "comu", "de", "tags">>

\* process() lines 796-804
ExplicitEdge(s, t) ==
    [source |-> s, target |-> t, evidence |-> PyList(<<"explicit">>),
     dashes |-> FALSE, similarity |-> 100, score |-> 100,
     reason |-> <<"ref", "Enllaça", "a">>]

\* process() lines 819-827, the evidence given as a bare, unnormalised str
AiEdge(s, t) ==
    [source |-> s, target |-> t, evidence |-> PyStr(" AI "),
     dashes |-> TRUE, similarity |-> 80, score |-> 80, reason |-> R1]

\* a tag-coincidence edge with a blank evidence item and no score
TagsEdge(s, t) ==
    [source |-> s, target |-> t, evidence |-> PyList(<<"tags", "  ">>),
     dashes |-> FALSE, similarity |-> 70,
     reason |-> <<"ús", "comu", "de", "tags">>]

\* an old-format edge: no evidence, no similarity, no reason
LegacyEdge(s, t) ==
    [source |-> s, target |-> t, dashes |-> TRUE, via_tags |-> <<"x">>]

RawEdges ==
    {[source |-> NoNode, target |-> t] : t \in MergeNodeIds \cup {NoNode}}
    \cup {[source |-> s, target |-> NoNode] : s \in MergeNodeIds}
    \cup UNION {{ExplicitEdge(s, t), AiEdge(s, t), TagsEdge(s, t), LegacyEdge(s, t)} :
                  <<s, t>> \in {p \in MergeNodeIds \X MergeNodeIds : p[1] # p[2]}}

Init ==
    /\ pc = "loop"
    /\ g_nodes = MergeNodeIds
    /\ g_meta = NoMeta
    /\ g_edges = <<>>
    /\ raw_edges = <<>>
    /\ merged = <<>>
    /\ new_edges = <<>>
    /\ ValidatorIdle
    /\ LegacyIdle
    /\ AnalyzeIdle
    /\ ProcessIdle
    /\ SaveIdle
    /\ TagsIdle

\* the loop reads the next raw edge of the list
MergeLoop ==
    \E e \in RawEdges : Len(raw_edges) < MaxEdges /\ LoopStep(e)

Next == MergeLoop \/ Finish

Spec == Init /\ [][Next]_vars

----------------------------------------------------------------------------
(* Pruning runs: one raw edge per pair, given in pair order, with _meta    *)

PruneSims == {None, 80, 90}
MinSims == {None, 85}
TopKs == {None, 0, 1, 2}

PruneEdge(s, t, sim) ==
    IF sim = None
    THEN [source |-> s, target |-> t, evidence |-> PyList(<<"explicit">>)]
    ELSE [source |-> s, target |-> t, evidence |-> PyList(<<"ai">>),
          dashes |-> TRUE, similarity |-> sim]

PruneEdges ==
    {PruneEdge(p[1], p[2], sim) :
        p \in {q \in (1..NumPruneNodes) \X (1..NumPruneNodes) : q[1] <= q[2]},
        sim \in PruneSims}

\* the raw edges come in increasing order of (source, target)
InPairOrder(edges, e) ==
    IF edges = <<>> THEN TRUE
    ELSE LET last == edges[Len(edges)]
         IN  IF last.source = e.source
             THEN last.target < e.target
             ELSE last.source < e.source

InitPrune ==
    /\ pc = "loop"
    /\ g_nodes = 1..NumPruneNodes
    /\ g_meta \in [min_similarity_kept : MinSims, topk_per_node : TopKs]
    /\ g_edges = <<>>
    /\ raw_edges = <<>>
    /\ merged = <<>>
    /\ new_edges = <<>>
    /\ ValidatorIdle
    /\ LegacyIdle
    /\ AnalyzeIdle
    /\ ProcessIdle
    /\ SaveIdle
    /\ TagsIdle

\* the loop reads the next raw edge of the list
PruneLoop ==
    \E e \in PruneEdges :
        /\ Len(raw_edges) < MaxPruneEdges
        /\ InPairOrder(raw_edges, e)
        /\ LoopStep(e)

NextPrune == PruneLoop \/ Finish

SpecPrune == InitPrune /\ [][NextPrune]_vars

----------------------------------------------------------------------------
(* pipeline/brain/validate_suggestions.py: validate_graph *)

\* The ids of the validator runs, ordered like the strings they stand for:
\* 1, 2, 3 are well-formed UUIDs, 10 is the pseudo-node id "tag::x", 20 is
\* the string "not-a-uuid"; None is an id that is no str (a missing key).
UuidIds == {1, 2, 3, 4, 5}
TagIds == {10}
BadIds == {20}

\* UUID_RE.match(x)
MatchesUuidRe(x) == x \in UuidIds

\* x.startswith("tag::")
StartsWithTag(x) == x \in TagIds

\* lines 13-18
is_uuid(x) ==
    IF x = None THEN FALSE
    ELSE IF StartsWithTag(x) THEN TRUE
    ELSE MatchesUuidRe(x)

\* int(round(n / d)) for n >= 0: Python rounds halves to the even integer
RoundDiv(n, d) ==
    LET q == n \div d
        r == n % d
    IN  IF 2 * r < d THEN q
        ELSE IF 2 * r > d THEN q + 1
        ELSE IF q % 2 = 0 THEN q ELSE q + 1

\* mutant: a score is never taken as a fraction
DerivedSimilarityNoFraction(e) ==
    LET sim == Get(e, "similarity", None)
        sc == Get(e, "score", None)
    IN  IF sim # None THEN sim
        ELSE IF IsNumber(sc) THEN RoundDiv(sc, 100)
        ELSE 0

\* lines 151-162: the similarity of an edge, derived from score when absent
\* (the score is counted in hundredths)
DerivedSimilarity(e) ==
    LET sim == Get(e, "similarity", None)
        sc == Get(e, "score", None)
    IN  IF sim # None THEN sim
        ELSE IF IsNumber(sc)
        THEN (IF sc <= 100 THEN sc ELSE RoundDiv(sc, 100))
        ELSE 0

\* mutant: the self-loop test is missing
EdgeVerdictNoSelfLoop(node_ids, e, min_sim) ==
    LET s == Get(e, "source", None)
        t == Get(e, "target", None)
    IN  IF ~(is_uuid(s) /\ is_uuid(t)) THEN "removed_invalid_ids"
        ELSE IF s \notin node_ids \/ t \notin node_ids THEN "removed_invalid_ids"
        ELSE IF DerivedSimilarity(e) < min_sim THEN "removed_low_sim"
        ELSE "kept"

\* mutant: the endpoints are not looked up in node_ids
EdgeVerdictNoLookup(node_ids, e, min_sim) ==
    LET s == Get(e, "source", None)
        t == Get(e, "target", None)
    IN  IF ~(is_uuid(s) /\ is_uuid(t)) THEN "removed_invalid_ids"
        ELSE IF s = t THEN "removed_selfloops"
        ELSE IF DerivedSimilarity(e) < min_sim THEN "removed_low_sim"
        ELSE "kept"

\* lines 140-166: what the loop does with one edge
EdgeVerdict(node_ids, e, min_sim) ==
    LET s == Get(e, "source", None)
        t == Get(e, "target", None)
    IN  IF ~(is_uuid(s) /\ is_uuid(t)) THEN "removed_invalid_ids"
        ELSE IF s \notin node_ids \/ t \notin node_ids THEN "removed_invalid_ids"
        ELSE IF s = t THEN "removed_selfloops"
        ELSE IF DerivedSimilarity(e) < min_sim THEN "removed_low_sim"
        ELSE "kept"

\* mutant: the similarity derived for the test is not stored; the copy takes
\* the similarity the edge came with, or 0
CleanedEdgeGivenSimilarity(e) ==
    [k \in DOMAIN e \cup {"similarity", "dashes"} |->
        CASE k = "similarity" -> IF Get(e, "similarity", None) = None THEN 0
                                 ELSE e.similarity
          [] k = "dashes" -> Get(e, "dashes", FALSE)
          [] k = "evidence" -> IF e.evidence.t = "str"
                               THEN PyList(<<e.evidence.v>>) ELSE e.evidence
          [] OTHER -> e[k]]

\* lines 168-175: the normalised copy of a kept edge
CleanedEdge(e) ==
    [k \in DOMAIN e \cup {"similarity", "dashes"} |->
        CASE k = "similarity" -> DerivedSimilarity(e)
          [] k = "dashes" -> Get(e, "dashes", FALSE)
          [] k = "evidence" -> IF e.evidence.t = "str"
                               THEN PyList(<<e.evidence.v>>) ELSE e.evidence
          [] OTHER -> e[k]]

\* the items of an evidence value: a list's items, a str itself, else none
EvidenceItems(e) ==
    LET ev == Get(e, "evidence", PyNone)
    IN  IF ev.t = "list" THEN SeqToSet(ev.v)
        ELSE IF ev.t = "str" THEN {ev.v} ELSE {}

\* lines 101-108: the reasons of b not yet in rs, appended in order
RECURSIVE AppendNew(_, _)
AppendNew(rs, l) ==
    IF l = <<>> THEN rs
    ELSE IF Head(l) # <<>> /\ Head(l) \notin SeqToSet(rs)
         THEN AppendNew(Append(rs, Head(l)), Tail(l))
         ELSE AppendNew(rs, Tail(l))

\* `x or 0`
OrZero(x) == IF x = None THEN 0 ELSE x

\* mutant: the first edge of a pair is kept as it is
merge_edge_first(a, b) == a

\* lines 84-111
merge_edge(a, b) ==
    LET sa == Get(a, "similarity", None)
        sb == Get(b, "similarity", None)
        ca == Get(a, "score", None)
        cb == Get(b, "score", None)
        ev == EvidenceItems(a) \cup EvidenceItems(b)
        rs == AppendNew(AppendNew(<<>>, Get(a, "reasons", <<>>)),
                        Get(b, "reasons", <<>>))
        keys == DOMAIN a
                  \cup (IF IsNumber(sa) \/ IsNumber(sb) THEN {"similarity"} ELSE {})
                  \cup (IF IsNumber(ca) \/ IsNumber(cb) THEN {"score"} ELSE {})
                  \cup {"evidence"}
                  \cup (IF rs # <<>> THEN {"reasons"} ELSE {})
    IN  [k \in keys |->
            CASE k = "similarity" /\ (IsNumber(sa) \/ IsNumber(sb))
                    -> Max2(OrZero(sa), OrZero(sb))
              [] k = "score" /\ (IsNumber(ca) \/ IsNumber(cb))
                    -> Max2(OrZero(ca), OrZero(cb))
              [] k = "evidence"
                    -> IF ev # {} THEN PyList(SortedEvidence(ev))
                       ELSE Get(a, "evidence", PyList(<<>>))
              [] k = "reasons" /\ rs # <<>> -> rs
              [] OTHER -> a[k]]

\* line 182: the key of an edge, the smaller id first
DedupKey(e) ==
    IF e.source < e.target THEN <<e.source, e.target>> ELSE <<e.target, e.source>>

\* mutant: a merge is not counted
RECURSIVE DedupUncounted(_, _, _)
DedupUncounted(cleaned, m, n) ==
    IF cleaned = <<>> THEN [edges |-> [i \in 1..Len(m) |-> m[i].entry], merged |-> n]
    ELSE LET e == Head(cleaned)
             i == IndexOf(m, DedupKey(e))
         IN  IF i # 0
             THEN DedupUncounted(Tail(cleaned), [m EXCEPT ![i].entry = merge_edge(@, e)], n)
             ELSE DedupUncounted(Tail(cleaned), Append(m, [key |-> DedupKey(e), entry |-> e]), n)

\* lines 178-188: cleaned after deduplication, and the number of merges
RECURSIVE Dedup(_, _, _)
Dedup(cleaned, m, n) ==
    IF cleaned = <<>> THEN [edges |-> [i \in 1..Len(m) |-> m[i].entry], merged |-> n]
    ELSE LET e == Head(cleaned)
             i == IndexOf(m, DedupKey(e))
         IN  IF i # 0
             THEN Dedup(Tail(cleaned), [m EXCEPT ![i].entry = merge_edge(@, e)], n + 1)
             ELSE Dedup(Tail(cleaned), Append(m, [key |-> DedupKey(e), entry |-> e]), n)

Inc(stats, k) == [stats EXCEPT ![k] = @ + 1]

\* lines 118-135: the stats record and the filter on the nodes
FilterNodes ==
    /\ v_pc = "start"
    /\ v_valid_nodes' = SelectSeq(v_nodes, is_uuid)
    /\ v_node_ids' = {n \in SeqToSet(v_nodes) : is_uuid(n)}
    /\ v_stats' = [total_nodes |-> Len(v_nodes),
                   valid_nodes |-> Len(SelectSeq(v_nodes, is_uuid)),
                   total_edges |-> 0, kept_edges |-> 0,
                   removed_selfloops |-> 0, removed_invalid_ids |-> 0,
                   removed_low_sim |-> 0, dedup_merged |-> 0]
    /\ v_pc' = "edges"
    /\ UNCHANGED <<v_nodes, v_min_sim, v_dedup, v_edges, v_cleaned, v_out>>
    /\ UNCHANGED v_frame

\* lines 139-175: one iteration of `for e in edges` over the next edge; the
\* list is read edge by edge, so total_edges = len(edges) grows with it
EdgeStep(e) ==
    /\ v_pc = "edges"
    /\ v_edges' = Append(v_edges, e)
    /\ LET verdict == EdgeVerdict(v_node_ids, e, v_min_sim)
       IN  IF verdict = "kept"
           THEN /\ v_cleaned' = Append(v_cleaned, CleanedEdge(e))
                /\ v_stats' = Inc(v_stats, "total_edges")
           ELSE /\ v_cleaned' = v_cleaned
                /\ v_stats' = Inc(Inc(v_stats, "total_edges"), verdict)
    /\ UNCHANGED <<v_pc, v_nodes, v_min_sim, v_dedup, v_valid_nodes, v_node_ids, v_out>>
    /\ UNCHANGED v_frame

\* lines 177-191: deduplication, kept_edges and the return
Return ==
    /\ v_pc = "edges"
    /\ LET d == IF v_dedup THEN Dedup(v_cleaned, <<>>, 0)
                ELSE [edges |-> v_cleaned, merged |-> 0]
       IN  /\ v_cleaned' = d.edges
           /\ v_out' = d.edges
           /\ v_stats' = [v_stats EXCEPT !.dedup_merged = d.merged,
                                         !.kept_edges = Len(d.edges)]
    /\ v_pc' = "done"
    /\ UNCHANGED <<v_nodes, v_min_sim, v_dedup, v_edges, v_valid_nodes, v_node_ids>>
    /\ UNCHANGED v_frame

----------------------------------------------------------------------------
(* validate_legacy: the mapping source id -> list of target items *)

\* lines 62-72: the similarity of an item, derived from score when absent;
\* float(score) raises on a str that is no number and the except gives 0
LegacySimilarity(item) ==
    LET sim == Get(item, "similarity", None)
        score == Get(item, "score", None)
    IN  IF sim # None THEN sim
        ELSE IF score # None
        THEN (IF score = NotANumber THEN 0
              ELSE IF score <= 100 THEN score ELSE RoundDiv(score, 100))
        ELSE 0

\* lines 53-74: what the inner loop does with one item
ItemVerdict(src, item, min_sim) ==
    LET tgt == Get(item, "target_id", None)
    IN  IF ~is_uuid(tgt) THEN "removed_invalid_ids"
        ELSE IF tgt = src THEN "removed_selfloops"
        ELSE IF LegacySimilarity(item) < min_sim THEN "low"
        ELSE "kept"

\* line 76: item["similarity"] = int(sim)
FixedItem(item) ==
    [k \in DOMAIN item \cup {"similarity"} |->
        IF k = "similarity" THEN LegacySimilarity(item) ELSE item[k]]

\* line 81
RECURSIVE SumLen(_)
SumLen(out) == IF out = <<>> THEN 0 ELSE Len(Head(out).fixed) + SumLen(Tail(out))

\* lines 44-50: the outer loop takes the next source of the mapping
SourceStep(src) ==
    /\ l_pc = "sources"
    /\ src \notin SeqToSet(l_seen)
    /\ l_seen' = Append(l_seen, src)
    /\ IF is_uuid(src)
       THEN /\ l_stats' = Inc(Inc(l_stats, "total_sources"), "valid_sources")
            /\ l_src' = src
            /\ l_fixed' = <<>>
            /\ l_pc' = "items"
       ELSE /\ l_stats' = Inc(l_stats, "total_sources")
            /\ UNCHANGED <<l_src, l_fixed, l_pc>>
    /\ UNCHANGED <<l_min_sim, l_read, l_out>>
    /\ UNCHANGED l_frame

\* lines 51-77: one iteration of `for item in lst`
ItemStep(item) ==
    /\ l_pc = "items"
    /\ l_read' = Append(l_read, [src |-> l_src, item |-> item])
    /\ LET verdict == ItemVerdict(l_src, item, l_min_sim)
       IN  /\ l_fixed' = IF verdict = "kept"
                         THEN Append(l_fixed, FixedItem(item)) ELSE l_fixed
           /\ l_stats' = IF verdict \in {"removed_invalid_ids", "removed_selfloops"}
                         THEN Inc(Inc(l_stats, "total_targets"), verdict)
                         ELSE Inc(l_stats, "total_targets")
    /\ UNCHANGED <<l_pc, l_min_sim, l_seen, l_src, l_out>>
    /\ UNCHANGED l_frame

\* lines 79-80: the list of a source is exhausted
EndSource ==
    /\ l_pc = "items"
    /\ l_out' = IF l_fixed # <<>>
                THEN Append(l_out, [src |-> l_src, fixed |-> l_fixed]) ELSE l_out
    /\ l_pc' = "sources"
    /\ UNCHANGED <<l_min_sim, l_seen, l_src, l_read, l_fixed, l_stats>>
    /\ UNCHANGED l_frame

\* lines 81-82: the mapping is exhausted
LegacyReturn ==
    /\ l_pc = "sources"
    /\ l_stats' = [l_stats EXCEPT !.valid_targets = SumLen(l_out)]
    /\ l_pc' = "done"
    /\ UNCHANGED <<l_min_sim, l_seen, l_src, l_read, l_fixed, l_out>>
    /\ UNCHANGED l_frame

----------------------------------------------------------------------------
(* Validator runs *)

MaxValidateEdges == 3    \* edges of the graph given to validate_graph

\* the node list: two notes, a tag pseudo-node and a node with a bad id
ValidateNodes == <<1, 2, 10, 20>>

MinSimArgs == {0, 55}

\* an edge as postprocess_graph emits it
GoodEdge(s, t) ==
    [source |-> s, target |-> t, evidence |-> PyList(<<"ai">>),
     reasons |-> <<R1>>, similarity |-> 90, score |-> 90, dashes |-> TRUE]

\* an edge with a score and no similarity
ScoredEdge(s, t) ==
    [source |-> s, target |-> t, evidence |-> PyStr("tags"), score |-> 50]

\* an edge of low similarity
WeakEdge(s, t) ==
    [source |-> s, target |-> t, evidence |-> PyList(<<"explicit">>),
     reasons |-> <<<<"ref", "Enllaça", "a">>>>, similarity |-> 30]

ValidateEndpoints ==
    {<<1, 2>>, <<2, 1>>, <<1, 10>>,           \* between two nodes
     <<1, 1>>, <<10, 10>>,                    \* self-loops on a node
     <<1, 3>>, <<3, 2>>, <<3, 3>>,            \* id 3 is the id of no node
     <<20, 1>>, <<2, 20>>, <<20, 20>>}        \* id 20 is no valid id

\* edges with no similarity: a score of 80.5, no score, a similarity of None
UnscoredEdges ==
    {[source |-> 1, target |-> 2, score |-> 8050],
     [source |-> 1, target |-> 2],
     [source |-> 2, target |-> 1, similarity |-> None]}

ValidateEdges ==
    UNION {{GoodEdge(p[1], p[2]), ScoredEdge(p[1], p[2]), WeakEdge(p[1], p[2])} :
             p \in {<<1, 2>>, <<2, 1>>, <<1, 10>>}}
    \cup {GoodEdge(p[1], p[2]) : p \in ValidateEndpoints}
    \cup {[target |-> 1, similarity |-> 90]}  \* no source at all
    \cup UnscoredEdges

MaxLegacyItems == 2      \* items of the mapping given to validate_legacy

\* the keys of the mapping: two UUIDs and a str that is no id
LegacySources == {1, 2, 20}

\* the items of a list: with similarity, with a score only (0.5, 1.0, 80.5,
\* a str that is no number), with neither, with a bad or missing target_id
LegacyItems ==
    UNION {{[target_id |-> t, similarity |-> 90, score |-> 90],
            [target_id |-> t, similarity |-> 30],
            [target_id |-> t, score |-> 50],
            [target_id |-> t, score |-> 100],
            [target_id |-> t, score |-> 8050],
            [target_id |-> t, score |-> NotANumber],
            [target_id |-> t]} : t \in {1, 2}}
    \cup {[target_id |-> 20, similarity |-> 90], [similarity |-> 90]}

\* validate_graph is given a graph
InitGraph ==
    /\ v_pc = "start"
    /\ v_nodes = ValidateNodes
    /\ v_min_sim \in MinSimArgs
    /\ v_dedup \in BOOLEAN
    /\ v_edges = <<>>
    /\ v_valid_nodes = <<>>
    /\ v_node_ids = {}
    /\ v_cleaned = <<>>
    /\ v_stats = <<>>
    /\ v_out = <<>>
    /\ LegacyIdle

\* validate_legacy is given a mapping
InitLegacy ==
    /\ ValidatorIdle
    /\ l_pc = "sources"
    /\ l_min_sim \in MinSimArgs
    /\ l_seen = <<>>
    /\ l_src = None
    /\ l_read = <<>>
    /\ l_fixed = <<>>
    /\ l_out = <<>>
    /\ l_stats = [total_sources |-> 0, valid_sources |-> 0,
                  total_targets |-> 0, valid_targets |-> 0,
                  removed_selfloops |-> 0, removed_invalid_ids |-> 0]

InitValidate ==
    /\ pc = "idle"
    /\ g_nodes = {}
    /\ g_meta = NoMeta
    /\ g_edges = <<>>
    /\ raw_edges = <<>>
    /\ merged = <<>>
    /\ new_edges = <<>>
    /\ (InitGraph \/ InitLegacy)
    /\ AnalyzeIdle
    /\ ProcessIdle
    /\ SaveIdle
    /\ TagsIdle

\* the loop reads the next edge of the list
ValidateLoop ==
    \E e \in ValidateEdges : Len(v_edges) < MaxValidateEdges /\ EdgeStep(e)

\* the outer loop reads the next key of the mapping
SourceLoop == \E src \in LegacySources : SourceStep(src)

\* the inner loop reads the next item of the current list
ItemLoop ==
    \E item \in LegacyItems : Len(l_read) < MaxLegacyItems /\ ItemStep(item)

NextValidate ==
    \/ FilterNodes \/ ValidateLoop \/ Return
    \/ SourceLoop \/ ItemLoop \/ EndSource \/ LegacyReturn

SpecValidate == InitValidate /\ [][NextValidate]_vars

----------------------------------------------------------------------------
(* analyze_ai and the parsers of pipeline/parses/robust_ai_parser.py.       *)
(* A str holding a reason is a record: the sequence of its lower-case words *)
(* and whether it carries leading, trailing or repeated whitespace. An id   *)
(* in a response is a record: the id and whether it is written in brackets. *)
(* A score is counted in hundredths, be it a fraction or a whole number.    *)

AI_MODEL_RETRIES == 2
MIN_SIM == 65
MAX_REASON_WORDS == 20
MIN_CONTENT_WORDS == 5

Str(words) == [words |-> words, padded |-> FALSE]
PaddedStr(words) == [words |-> words, padded |-> TRUE]

\* the words of fewer than 3 letters
TwoLetterWords == {"de", "la", "el", "en", "es", "in", "no", "ai"}

\* line 148: the lower-cased alphabetic tokens of s
_tokenize_words(s) == s.words

\* line 178: the tokens that are no stopwords and have 3 letters or more
ContentWords(tokens, stops) ==
    SelectSeq(tokens, LAMBDA t : t \notin stops /\ t \notin TwoLetterWords)

\* mutant: only the number of words is tested
reason_ok_any_content(reason, stops) ==
    LET total == Len(_tokenize_words(reason))
    IN  IF reason.words = <<>> THEN FALSE
        ELSE ~(total < MIN_REASON_WORDS \/ total > MAX_REASON_WORDS)

\* lines 163-179: reason_ok of the parser module
parser_reason_ok(reason, stops) ==
    LET tokens == _tokenize_words(reason)
        total == Len(tokens)
    IN  IF reason.words = <<>> THEN FALSE
        ELSE IF total < MIN_REASON_WORDS \/ total > MAX_REASON_WORDS THEN FALSE
        ELSE Len(ContentWords(tokens, stops)) >= MIN_CONTENT_WORDS

\* lines 181-188, for x None or an integer
_coerce_int_0_100(x) ==
    IF x = None THEN None
    ELSE IF x < 0 THEN 0 ELSE IF x > 100 THEN 100 ELSE x

\* lines 190-192: strip, then every run of whitespace becomes one space
_norm_reason(s) == Str(s.words)

\* a missing id, and a missing reason (`x or ""`)
NoId == [u |-> None, br |-> FALSE]
NoStr == Str(<<>>)

\* lines 194-197: the id without the brackets and blanks around it
_strip_id(raw_id) == raw_id.u

\* `x or y` for x None, 0 or a non-zero integer
OrElse(x, y) == IF x = None \/ x = 0 THEN y ELSE x

\* lines 211-217: _push appends the item, or nothing
_push(d) ==
    LET _id == Get(d, "id", NoId)
        sim == _coerce_int_0_100(OrElse(Get(d, "similarity", None), Get(d, "score", None)))
        reason == _norm_reason(Get(d, "reason", NoStr))
    IN  IF _id = NoId \/ sim = None THEN <<>>
        ELSE <<[id |-> _id, similarity |-> sim, reason |-> reason]>>

\* lines 219-227: the items of a list
RECURSIVE _extract_connections(_)
_extract_connections(data) ==
    IF data = <<>> THEN <<>>
    ELSE _push(Head(data)) \o _extract_connections(Tail(data))

\* lines 258-317: a response that is a JSON array of flat objects is loaded
\* at once; when no item comes out of it, the array and the object the later
\* strategies cut out of the text hold the same items and give none either;
\* a text with no JSON in it gives none
_parse_ai_json_robust(raw) ==
    IF raw.kind = "array" THEN _extract_connections(raw.items) ELSE <<>>

\* mutant: a similarity equal to MIN_SIM is skipped too
BelowMinSimOrEqual(sim) == sim <= MIN_SIM

\* line 764: sim < MIN_SIM
BelowMinSim(sim) == sim < MIN_SIM

\* lines 755-777: the items of the primary parse that analyze_ai accepts
RECURSIVE PrimaryAccepted(_, _, _)
PrimaryAccepted(items, valid_ids, stops) ==
    IF items = <<>> THEN <<>>
    ELSE LET it == Head(items)
             _id == _strip_id(it.id)
             sim == _coerce_int_0_100(it.similarity)
             reason == _norm_reason(it.reason)
             rest == PrimaryAccepted(Tail(items), valid_ids, stops)
         IN  IF _id \notin valid_ids THEN rest
             ELSE IF sim = None THEN rest
             ELSE IF BelowMinSim(sim) THEN rest
             ELSE IF ~parser_reason_ok(reason, stops) THEN rest
             ELSE <<[id |-> _id, score |-> 100 * sim, reason |-> reason]>> \o rest

\* lines 431-468: the id a value resolves to. A value that holds a UUID
\* resolves to it when it is the id of a pending candidate and to nothing
\* otherwise; a value that is the title of a note resolves through
\* title_to_id, which holds the pending candidates only
_resolve_id(value, pendents) ==
    IF value = NoId THEN None
    ELSE IF "u" \in DOMAIN value
    THEN (IF value.u \in SeqToSet(pendents) THEN value.u ELSE None)
    ELSE (IF value.title_of \in SeqToSet(pendents) THEN value.title_of ELSE None)

\* lines 538-548: the first id field of the item that resolves
ResolvedId(item, pendents) ==
    LET try(f) == _resolve_id(Get(item, f, NoId), pendents)
    IN  IF try("id") # None THEN try("id")
        ELSE IF try("target_id") # None THEN try("target_id")
        ELSE try("title")

\* lines 558-573: [raw_sim_int, score] from the first score field present
ScoreOf(item) ==
    LET s == IF "similitud" \in DOMAIN item THEN item.similitud
             ELSE IF "score" \in DOMAIN item THEN item.score
             ELSE IF "similarity" \in DOMAIN item THEN item.similarity
             ELSE None
    IN  IF s = None THEN [raw_sim_int |-> None, score |-> 50]
        ELSE IF s > 1 THEN [raw_sim_int |-> s, score |-> s]
        ELSE [raw_sim_int |-> s * 100, score |-> s * 100]

SemanticMatchReason == Str(<<"semantic", "match", "ai">>)

FallbackTitleReason ==
    Str(<<"fallback", "title", "detected", "in", "response", "no", "json">>)

\* lines 576-586
ReasonOf(item) ==
    LET r == IF "razon" \in DOMAIN item THEN item.razon
             ELSE IF "reason" \in DOMAIN item THEN item.reason
             ELSE Str(<<>>)
    IN  IF r.words = <<>> THEN SemanticMatchReason ELSE Str(r.words)

\* lines 533-612: the connections the items of the JSON give
RECURSIVE Connections(_, _, _)
Connections(items, pendents, stops) ==
    IF items = <<>> THEN <<>>
    ELSE LET item == Head(items)
             resolved_id == ResolvedId(item, pendents)
             sc == ScoreOf(item)
             reason == ReasonOf(item)
             rest == Connections(Tail(items), pendents, stops)
         IN  IF resolved_id = None THEN rest
             ELSE IF ~parser_reason_ok(reason, stops) THEN rest
             ELSE IF sc.raw_sim_int # None /\ sc.raw_sim_int < MIN_SIM THEN rest
             ELSE <<[id |-> resolved_id, titulo |-> resolved_id, score |-> sc.score,
                     reason |-> reason,
                     similarity |-> IF sc.raw_sim_int # None
                                    THEN sc.raw_sim_int ELSE sc.score,
                     metodo |-> "ia"]>> \o rest

\* the notes whose title is written in the response
TitlesIn(raw) ==
    {raw.items[i].title.title_of :
        i \in {j \in 1..Len(raw.items) : "title" \in DOMAIN raw.items[j]}}

\* lines 630-641: an entry for every pending candidate whose title is found
\* in the response, in the order of title_to_id
TitleFallback(raw, pendents) ==
    LET hit(n) == n \in TitlesIn(raw)
        hits == SelectSeq(pendents, hit)
    IN  [i \in 1..Len(hits) |->
            [id |-> hits[i], titulo |-> hits[i], score |-> 40,
             reason |-> FallbackTitleReason, metodo |-> "ia-fallback"]]

\* lines 470-643. _extract_json_from_text gives the list of an array and
\* None for a text with no JSON; uuid_pattern is anchored at both ends, so
\* the scan of lines 616-628 finds a UUID only in a response that is nothing
\* but that UUID, which holds no JSON and never gets that far
parse_ai_response(raw, pendents, stops) ==
    IF raw.kind # "array" \/ raw.items = <<>> THEN <<>>
    ELSE LET connections == Connections(raw.items, pendents, stops)
         IN  IF connections # <<>> THEN connections
             ELSE TitleFallback(raw, pendents)

\* line 792: the score as a similarity
ScoreAsSimilarity(score) == IF score <= 100 THEN score ELSE RoundDiv(score, 100)

\* lines 787-794: the connections of the secondary parse analyze_ai accepts
SecondaryAccepted(raw, pendents, stops) ==
    SelectSeq(parse_ai_response(raw, pendents, stops),
              LAMBDA c : /\ parser_reason_ok(c.reason, stops)
                         /\ ScoreAsSimilarity(c.score) >= MIN_SIM)

\* mutant: every candidate is pending
PendentsAll(candidatos, found) == candidatos

\* line 648
Pendents(candidatos, found) == SelectSeq(candidatos, LAMBDA c : c \notin found)

\* mutant: only transport errors are caught
CaughtTransportOnly(kind) == kind \in {"Timeout", "ConnectionError"}

\* lines 804 and 817: the exceptions the two except clauses catch
Caught(kind) == kind \in {"Timeout", "ConnectionError", "Exception"}

\* mutant: the sleep does not depend on the attempt
CanRetryAlways(attempt) == TRUE

\* lines 806 and 819
CanRetry(attempt) == attempt < AI_MODEL_RETRIES

\* the candidates given to analyze_ai
Candidatos == <<1, 2, 3>>

\* lines 648-656: the pending candidates; with none analyze_ai returns []
Start ==
    /\ a_pc = "start"
    /\ LET pendents == Pendents(Candidatos, a_found)
       IN  /\ a_pendents' = pendents
           /\ a_pc' = IF pendents = <<>> THEN "done" ELSE "call"
    /\ UNCHANGED <<a_stops, a_found, a_attempt, a_hist, a_sleeps, a_last_err,
                   a_response, a_result>>
    /\ UNCHANGED a_frame

\* the loop goes to the next attempt, or ends and analyze_ai returns []
NextAttempt(o) ==
    IF a_attempt < AI_MODEL_RETRIES
    THEN /\ a_attempt' = a_attempt + 1
         /\ a_pc' = "call"
         /\ UNCHANGED <<a_response, a_result>>
    ELSE /\ a_attempt' = a_attempt
         /\ a_pc' = "done"
         /\ a_response' = o
         /\ a_result' = <<>>

\* lines 730-833: one attempt, with what call_ai_client gives or raises
Call(o) ==
    /\ a_pc = "call"
    /\ IF o.kind \in {"array", "text"}
       THEN LET valid_ids == SeqToSet(a_pendents)
                out == PrimaryAccepted(_parse_ai_json_robust(o), valid_ids, a_stops)
                connections == SecondaryAccepted(o, a_pendents, a_stops)
                found == out # <<>> \/ connections # <<>>
            IN  /\ a_hist' = Append(a_hist, IF found THEN "accepted" ELSE "empty")
                /\ IF found
                   THEN /\ a_result' = IF out # <<>> THEN out ELSE connections
                        /\ a_response' = o
                        /\ a_pc' = "done"
                        /\ a_attempt' = a_attempt
                   ELSE NextAttempt(o)
                /\ UNCHANGED <<a_sleeps, a_last_err>>
       ELSE IF Caught(o.kind)
       THEN /\ a_hist' = Append(a_hist, o.kind)
            /\ a_last_err' = o.kind
            /\ IF CanRetry(a_attempt)
               THEN /\ a_sleeps' = Append(a_sleeps, [after |-> a_attempt, exp |-> a_attempt])
                    /\ NextAttempt(o)
               ELSE /\ a_sleeps' = a_sleeps
                    /\ a_attempt' = a_attempt
                    /\ a_pc' = "done"
                    /\ a_response' = o
                    /\ a_result' = <<>>
       ELSE /\ a_hist' = Append(a_hist, o.kind)
            /\ a_pc' = "raised"
            /\ a_response' = o
            /\ UNCHANGED <<a_attempt, a_sleeps, a_last_err, a_result>>
    /\ UNCHANGED <<a_stops, a_found, a_pendents>>
    /\ UNCHANGED a_frame

----------------------------------------------------------------------------
(* analyze_ai runs *)

MaxItems == 2    \* items of the JSON array of a response

GoodWords ==
    <<"ambdues", "notes", "tracten", "etica", "aplicada", "que", "de", "recerca">>

\* 8 words; 6 of them are content words unless "que" is a stopword
MarginalWords ==
    <<"que", "que", "notes", "tracten", "etica", "aplicada", "de", "la">>

\* 8 words, 3 of 3 letters or more
FewContentWords == <<"que", "de", "la", "el", "en", "es", "etica", "recerca">>

ShortWords == <<"etica", "aplicada", "recerca">>

LongWords == GoodWords \o GoodWords \o <<"etica", "aplicada", "recerca", "notes", "tracten">>

\* _load_stopwords: no file found, or a file with these words
StopSets == {{}, {"que"}}

\* ids_ja_trobats: candidate 3 is found already, or all of them are
FoundSets == {{3}, {1, 2, 3}}

Uuid(n) == [u |-> n, br |-> FALSE]

\* an item as the prompt asks for it
PromptItem(n, sim, reason) == [id |-> Uuid(n), similarity |-> sim, reason |-> reason]

\* an item with other field names
OtherItem(n, sim, reason) == [target_id |-> Uuid(n), similitud |-> sim, razon |-> reason]

\* an item that names the note by its title
TitleItem(n, sim, reason) ==
    [title |-> [title_of |-> n], similitud |-> sim, razon |-> reason]

\* ids 1, 2, 3 are the candidates, 9 is a UUID of no candidate
AiItems ==
    {PromptItem(1, n, Str(GoodWords)) : n \in {0, 1, 64, 65, 100}}
    \cup {[id |-> [u |-> 1, br |-> TRUE], similarity |-> 90,
           reason |-> Str(GoodWords)],
          PromptItem(2, 65, PaddedStr(GoodWords)),
          PromptItem(2, 150, Str(GoodWords)),
          PromptItem(1, 90, Str(MarginalWords)),
          PromptItem(1, 90, Str(FewContentWords)),
          PromptItem(2, 90, Str(ShortWords)),
          PromptItem(2, 90, Str(LongWords)),
          PromptItem(3, 90, Str(GoodWords)),
          PromptItem(9, 90, Str(GoodWords)),
          [id |-> Uuid(1), reason |-> Str(GoodWords)]}
    \cup {OtherItem(1, 90, Str(GoodWords)),
          OtherItem(1, 90, Str(FewContentWords)),
          OtherItem(2, 50, PaddedStr(GoodWords)),
          OtherItem(3, 90, Str(GoodWords)),
          OtherItem(9, 90, Str(GoodWords))}
    \cup {TitleItem(2, 90, Str(GoodWords)),
          TitleItem(2, 50, Str(GoodWords)),
          TitleItem(3, 90, Str(GoodWords))}

RECURSIVE SeqsUpTo(_, _)
SeqsUpTo(S, n) ==
    IF n = 0 THEN {<<>>}
    ELSE LET shorter == SeqsUpTo(S, n - 1)
         IN  shorter \cup {Append(q, x) : q \in {r \in shorter : Len(r) = n - 1}, x \in S}

\* what call_ai_client gives or raises: a JSON array, a text with no JSON,
\* requests.Timeout, requests.ConnectionError, any other exception
OutcomesOf(n) ==
    {[kind |-> "array", items |-> q] : q \in SeqsUpTo(AiItems, n)}
    \cup {[kind |-> k] : k \in {"text", "Timeout", "ConnectionError", "Exception"}}

Outcomes == OutcomesOf(MaxItems)

\* the outcomes that tell the attempts of analyze_ai apart: the exceptions,
\* the responses with nothing in them, the responses of one item
RetryOutcomes == OutcomesOf(1)

PostprocessIdle ==
    /\ pc = "idle"
    /\ g_nodes = {}
    /\ g_meta = NoMeta
    /\ g_edges = <<>>
    /\ raw_edges = <<>>
    /\ merged = <<>>
    /\ new_edges = <<>>

InitAnalyze ==
    /\ PostprocessIdle
    /\ ValidatorIdle
    /\ LegacyIdle
    /\ a_pc = "start"
    /\ a_stops \in StopSets
    /\ a_found \in FoundSets
    /\ a_pendents = <<>>
    /\ a_attempt = 0
    /\ a_hist = <<>>
    /\ a_sleeps = <<>>
    /\ a_last_err = "None"
    /\ a_response = [kind |-> "none"]
    /\ a_result = <<>>
    /\ ProcessIdle
    /\ SaveIdle
    /\ TagsIdle

CallLoop == a_pc = "call" /\ \E o \in Outcomes : Call(o)

NextAnalyze == Start \/ CallLoop

SpecAnalyze == InitAnalyze /\ [][NextAnalyze]_vars

RetryLoop == a_pc = "call" /\ \E o \in RetryOutcomes : Call(o)

NextRetry == Start \/ RetryLoop

\* the process runs on and every call of the AI service returns or raises
\* (call_ai_client passes timeout=AI_MODEL_TIMEOUT to requests.post)
SpecAnalyzeFair == InitAnalyze /\ [][NextRetry]_vars /\ WF_vars(NextRetry)

----------------------------------------------------------------------------
(* save_graph (suggest_connections_digital_brain.py, lines 409-430) and
   save_json (validate_suggestions.py, lines 24-30)

   A file is the JSON text of a document, written in NumChunks parts: `chunks`
   says how many of them the file holds, `synced` whether fsync has put them
   on disk. *)

NumChunks == 2    \* parts in which json.dump writes one JSON text

OUT_JSON == [name |-> "OUT_JSON", tmp |-> FALSE]

\* writing to the destination itself
TmpOfSame(path) == path

\* tmp = path.with_suffix(path.suffix + ".tmp") / tmp = path + ".tmp"
TmpOf(path) == [path EXCEPT !.tmp = TRUE]

File(doc, chunks, synced) ==
    [exists |-> TRUE, doc |-> doc, chunks |-> chunks, synced |-> synced]

IsComplete(f) == f.exists /\ f.chunks = NumChunks

\* save_graph catches the exception and logs it; save_json has no handler
Reraises(fn) == fn = "save_json"

SaveSteps == {"mkdir", "open", "dump", "flush", "fsync", "replace"}

\* the call save_graph(graph, OUT_JSON) / save_json(data, path)
CallSaveWith(fn, data) ==
    /\ s_pc' = "mkdir"
    /\ s_fn' = fn
    /\ s_data' = data
    /\ s_written' = 0
    /\ s_err' = "None"
    /\ s_log' = "None"
    /\ s_raised' = FALSE
    /\ fs' = fs

\* path.parent.mkdir(parents=True, exist_ok=True) / os.makedirs
Mkdir ==
    /\ s_pc = "mkdir"
    /\ s_pc' = "open"
    /\ UNCHANGED <<s_fn, s_data, s_written, s_err, s_log, s_raised, fs>>
    /\ UNCHANGED s_frame

\* tmp.open("w"): the temporary file is created, or truncated
Open ==
    /\ s_pc = "open"
    /\ fs' = [fs EXCEPT ![TmpOf(OUT_JSON)] = File(s_data, 0, FALSE)]
    /\ s_written' = 0
    /\ s_pc' = "dump"
    /\ UNCHANGED <<s_fn, s_data, s_err, s_log, s_raised>>
    /\ UNCHANGED s_frame

\* json.dump writes the next part to f; the buffer of f may pass what it
\* holds to the file or keep it
Dump ==
    /\ s_pc = "dump"
    /\ s_written < NumChunks
    /\ s_written' = s_written + 1
    /\ \E k \in {fs[TmpOf(OUT_JSON)].chunks, s_written + 1} :
           fs' = [fs EXCEPT ![TmpOf(OUT_JSON)] = File(s_data, k, FALSE)]
    /\ s_pc' = IF s_written + 1 = NumChunks THEN "flush" ELSE "dump"
    /\ UNCHANGED <<s_fn, s_data, s_err, s_log, s_raised>>
    /\ UNCHANGED s_frame

\* f.flush(): all that was written is in the file
Flush ==
    /\ s_pc = "flush"
    /\ fs' = [fs EXCEPT ![TmpOf(OUT_JSON)] = File(s_data, s_written, FALSE)]
    /\ s_pc' = "fsync"
    /\ UNCHANGED <<s_fn, s_data, s_written, s_err, s_log, s_raised>>
    /\ UNCHANGED s_frame

\* os.fsync(f.fileno()), then the with block closes f
Fsync ==
    /\ s_pc = "fsync"
    /\ fs' = [fs EXCEPT ![TmpOf(OUT_JSON)] = File(s_data, s_written, TRUE)]
    /\ s_pc' = "replace"
    /\ UNCHANGED <<s_fn, s_data, s_written, s_err, s_log, s_raised>>
    /\ UNCHANGED s_frame

\* os.replace(tmp, path), and the log.info of save_graph
Replace ==
    /\ s_pc = "replace"
    /\ fs' = [p \in Paths |->
                IF p = OUT_JSON THEN fs[TmpOf(OUT_JSON)]
                ELSE IF p = TmpOf(OUT_JSON) THEN NoFile
                ELSE fs[p]]
    /\ s_log' = IF s_fn = "save_graph" THEN "ok" ELSE s_log
    /\ s_pc' = "done"
    /\ UNCHANGED <<s_fn, s_data, s_written, s_err, s_raised>>
    /\ UNCHANGED s_frame

\* the step raises (no directory, no permission, disk full, ...). When f is
\* open the with block closes it, and what its buffer holds may reach the file.
\* save_graph: except Exception: log.exception(...); save_json: no handler
Fail ==
    /\ s_pc \in SaveSteps
    /\ s_err' = s_pc
    /\ IF s_pc \in {"dump", "flush", "fsync"}
       THEN \E k \in fs[TmpOf(OUT_JSON)].chunks..s_written :
               fs' = [fs EXCEPT ![TmpOf(OUT_JSON)] =
                          File(s_data, k, fs[TmpOf(OUT_JSON)].synced /\ k = fs[TmpOf(OUT_JSON)].chunks)]
       ELSE fs' = fs
    /\ s_log' = IF Reraises(s_fn) THEN s_log ELSE "exception"
    /\ s_raised' = Reraises(s_fn)
    /\ s_pc' = "done"
    /\ UNCHANGED <<s_fn, s_data, s_written>>
    /\ UNCHANGED s_frame

----------------------------------------------------------------------------
(* process() from the _meta block on
   (suggest_connections_digital_brain.py, lines 847-878) *)

cfg_min_similarity_kept == 60    \* getattr(cfg, "min_similarity_kept", 60)
cfg_topk_per_node == 3           \* getattr(cfg, "topk_per_node", 3)

\* lines 848-854
WithMeta(graph) ==
    [nodes |-> graph.nodes, edges |-> graph.edges,
     _meta |-> [nodes |-> Len(graph.nodes),
                edges |-> Len(graph.edges),
                generated_at |-> "now",
                min_similarity_kept |-> cfg_min_similarity_kept,
                topk_per_node |-> cfg_topk_per_node]]

\* graph["_meta"] = {...}
AttachMeta ==
    /\ p_pc = "meta"
    /\ p_graph' = WithMeta(p_graph)
    /\ p_pc' = "validate"
    /\ UNCHANGED <<p_report, vvars, svars>>
    /\ UNCHANGED p_frame

\* res = validate_graph(graph, min_sim=...): the call
CallValidate ==
    /\ p_pc = "validate"
    /\ v_pc = "idle"
    /\ v_pc' = "start"
    /\ v_nodes' = p_graph.nodes
    /\ v_min_sim' = cfg_min_similarity_kept
    /\ v_dedup' = TRUE
    /\ p_pc' = "validating"
    /\ UNCHANGED <<v_edges, v_valid_nodes, v_node_ids, v_cleaned, v_stats, v_out>>
    /\ UNCHANGED <<p_graph, p_report, svars>>
    /\ UNCHANGED p_frame

\* validate_graph's loop reads the next edge of graph["edges"]
ProcessEdgeStep ==
    /\ p_pc = "validating"
    /\ Len(v_edges) < Len(p_graph.edges)
    /\ EdgeStep(p_graph.edges[Len(v_edges) + 1])

\* validate_graph has read every edge and returns
ProcessReturn ==
    /\ p_pc = "validating"
    /\ Len(v_edges) = Len(p_graph.edges)
    /\ Return

\* lines 859-866: graph, validation_report = res; save_graph(graph, OUT_JSON)
TakeValidated ==
    /\ p_pc = "validating"
    /\ v_pc = "done"
    /\ p_graph' = [nodes |-> v_valid_nodes, edges |-> v_out]
    /\ p_report' = v_stats
    /\ p_pc' = "saving"
    /\ CallSaveWith("save_graph", [nodes |-> v_valid_nodes, edges |-> v_out])
    /\ UNCHANGED vvars
    /\ UNCHANGED p_frame

\* lines 866-878: save_graph has returned or raised. An exception inside the
\* try is caught at line 872 and the graph is saved again; one raised by that
\* second save_graph leaves process(); otherwise process() goes on to
\* convert_for_sigma()
AfterSave ==
    /\ p_pc \in {"saving", "saving_unvalidated"}
    /\ s_pc = "done"
    /\ IF s_raised
       THEN IF p_pc = "saving"
            THEN /\ p_pc' = "saving_unvalidated"
                 /\ CallSaveWith("save_graph", p_graph)
            ELSE /\ p_pc' = "aborted"
                 /\ UNCHANGED svars
       ELSE /\ p_pc' = "sigma"
            /\ UNCHANGED svars
    /\ UNCHANGED <<p_graph, p_report, vvars>>
    /\ UNCHANGED p_frame

----------------------------------------------------------------------------
(* Runs of process() and of save_json *)

MaxProcessEdges == 2    \* edges of the graph postprocess_graph gave

\* two notes and a tag pseudo-node
ProcessNodes == <<1, 2, 10>>

ProcessEdges ==
    {GoodEdge(1, 2), WeakEdge(1, 2), GoodEdge(1, 10), GoodEdge(2, 10)}

\* postprocess_graph emits one edge for each pair of endpoints
OnePerPair(edges) ==
    \A i, j \in 1..Len(edges) :
        i # j => {edges[i].source, edges[i].target} # {edges[j].source, edges[j].target}

ProcessGraphs ==
    {[nodes |-> ProcessNodes, edges |-> q] :
        q \in {r \in SeqsUpTo(ProcessEdges, MaxProcessEdges) : OnePerPair(r)}}

\* the graph file of an earlier run
OldGraph == WithMeta([nodes |-> <<1>>, edges |-> <<>>])

\* at the destination: nothing, or the complete file of an earlier run; at
\* the temporary path: nothing, or what a run that was killed left there
InitialFs ==
    {[p \in Paths |-> IF p = OUT_JSON THEN d ELSE t] :
        d \in {NoFile, File(OldGraph, NumChunks, TRUE)},
        t \in {NoFile, File(OldGraph, 1, FALSE)}}

\* process() has the graph that postprocess_graph returned
InitProcess ==
    /\ p_pc = "meta"
    /\ p_graph \in ProcessGraphs
    /\ p_report = <<>>
    /\ s_pc = "idle"
    /\ s_fn = "None"
    /\ s_data = NoGraph
    /\ s_written = 0
    /\ s_err = "None"
    /\ s_log = "None"
    /\ s_raised = FALSE
    /\ fs \in InitialFs

\* the validator's main calls save_json(fixed, args.output)
InitSaveJson ==
    /\ ProcessIdle
    /\ s_pc = "mkdir"
    /\ s_fn = "save_json"
    /\ s_data \in ProcessGraphs
    /\ s_written = 0
    /\ s_err = "None"
    /\ s_log = "None"
    /\ s_raised = FALSE
    /\ fs \in InitialFs

InitSave ==
    /\ PostprocessIdle
    /\ ValidatorIdle
    /\ LegacyIdle
    /\ AnalyzeIdle
    /\ TagsIdle
    /\ (InitProcess \/ InitSaveJson)

NextSave ==
    \/ AttachMeta \/ CallValidate \/ FilterNodes \/ ProcessEdgeStep
    \/ ProcessReturn \/ TakeValidated \/ AfterSave
    \/ Mkdir \/ Open \/ Dump \/ Flush \/ Fsync \/ Replace \/ Fail

SpecSave == InitSave /\ [][NextSave]_vars

----------------------------------------------------------------------------
(* process() from the raw graph to the _meta block
   (suggest_connections_digital_brain.py, lines 836-839) *)

\* lines 1076-1085: int(graph.get("_meta", {}).get(key)); without the key
\* int(None) raises and the value stays None
MetaOf(graph) ==
    IF "_meta" \in DOMAIN graph
    THEN [min_similarity_kept |-> graph._meta.min_similarity_kept,
          topk_per_node |-> graph._meta.topk_per_node]
    ELSE NoMeta

\* lines 836-839: graph = {"nodes": nodes, "edges": edges};
\* graph = postprocess_graph(graph)
CallPostprocess ==
    /\ p_pc = "postprocess"
    /\ pc = "idle"
    /\ g_nodes' = SeqToSet(p_graph.nodes)
    /\ g_meta' = MetaOf(p_graph)
    /\ raw_edges' = p_graph.edges
    /\ merged' = MergeAll(g_nodes', <<>>, p_graph.edges)
    /\ new_edges' = BuildFinalEdges(merged')
    /\ g_edges' = Prune(new_edges', g_meta')
    /\ pc' = "done"
    /\ p_graph' = [nodes |-> p_graph.nodes, edges |-> g_edges']
    /\ p_pc' = "meta"
    /\ UNCHANGED <<p_report, vvars, lvars, avars, svars, tvars>>

----------------------------------------------------------------------------
(* Runs of process() from the raw graph *)

MaxPipelineEdges == 7    \* raw edges of the graph process() has built

PipelineNodes == <<1, 2, 3, 4, 5>>

\* the pairs of the raw edges, in the order process() appended them: notes 1
\* and 2 are each linked to 3, 4 and 5, and to each other
PipelinePairs ==
    <<<<1, 3>>, <<1, 4>>, <<1, 5>>, <<2, 3>>, <<2, 4>>, <<2, 5>>, <<1, 2>>>>

PipelineSims == {50, 80, 90}

\* an AI edge of a given similarity
PipelineEdge(s, t, sim) == [AiEdge(s, t) EXCEPT !.similarity = sim, !.score = sim]

PipelineGraphs ==
    {[nodes |-> PipelineNodes,
      edges |-> [i \in 1..n |-> PipelineEdge(PipelinePairs[i][1], PipelinePairs[i][2], f[i])]] :
        n \in {k \in 0..MaxPipelineEdges : k <= Len(PipelinePairs)},
        f \in [1..Len(PipelinePairs) -> PipelineSims]}

\* process() has built the list of nodes and the list of raw edges
InitPipeline ==
    /\ PostprocessIdle
    /\ ValidatorIdle
    /\ LegacyIdle
    /\ AnalyzeIdle
    /\ SaveIdle
    /\ TagsIdle
    /\ p_pc = "postprocess"
    /\ p_graph \in PipelineGraphs
    /\ p_report = <<>>

NextPipeline ==
    \/ CallPostprocess \/ AttachMeta \/ CallValidate \/ FilterNodes
    \/ ProcessEdgeStep \/ ProcessReturn \/ TakeValidated

SpecPipeline == InitPipeline /\ [][NextPipeline]_vars

----------------------------------------------------------------------------
(* tag_similarity (suggest_connections_digital_brain.py, lines 315-351) *)

tags_points_per_common_tag == 25
tags_max_points_from_tags == 50
tags_keywords_min_len == 5
tags_keywords_points_per_overlap == 3
tags_keywords_max_points == 50

Min2(a, b) == IF a <= b THEN a ELSE b

\* normalize_tagset: the normalized tags that are not empty
normalize_tagset(tags) == {NormalizeTag(t) : t \in tags} \ {""}

\* the order of str on the tags of the model
TagRank(t) ==
    CASE t = "etica" -> 1
      [] t = "x" -> 2
      [] t = "y" -> 3
      [] t = "z" -> 4
      [] OTHER -> 5

\* sorted(tags)
RECURSIVE SortedTags(_)
SortedTags(tags) ==
    IF tags = {} THEN <<>>
    ELSE LET first == CHOOSE t \in tags : \A u \in tags : TagRank(t) <= TagRank(u)
         IN  <<first>> \o SortedTags(tags \ {first})

\* l[:n]
FirstN(l, n) == SubSeq(l, 1, Min2(n, Len(l)))

\* _clean_text on one word: lower case, punctuation to blanks
CleanWord(w) ==
    CASE w = "Etica," -> "etica"
      [] OTHER -> w

WordLen(w) ==
    CASE w = "filosofia" -> 9
      [] w = "etica" -> 5
      [] w = "sobre" -> 5
      [] w = "art" -> 3
      [] OTHER -> 6

\* the stoplist of _extract_keywords, as far as the words of the model go
KeywordStops == {"sobre", "para", "como"}

\* _extract_keywords(text, min_len)
_extract_keywords(text, min_len) ==
    LET IsKeyword(w) == WordLen(w) >= min_len /\ w \notin KeywordStops
        Clean(l) == [i \in 1..Len(l) |-> CleanWord(l[i])]
    IN  SelectSeq(Clean(text), IsKeyword)

\* Counter(p)[w]
Count(p, w) == Cardinality({i \in 1..Len(p) : p[i] = w})

\* sum(min(c1[w], c2[w]) for w in ws)
RECURSIVE SumMinCounts(_, _, _)
SumMinCounts(ws, p1, p2) ==
    IF ws = {} THEN 0
    ELSE LET w == CHOOSE x \in ws : TRUE
         IN  Min2(Count(p1, w), Count(p2, w)) + SumMinCounts(ws \ {w}, p1, p2)

\* sorted(comunes_kw, key=lambda w: c1[w] + c2[w], reverse=True)[:2]: the
\* keywords of equal count come in the iteration order of the set, which is
\* any order
TopKeywords(ws, p1, p2) ==
    LET k(w) == Count(p1, w) + Count(p2, w)
    IN  {top \in SeqsUpTo(ws, 2) :
            /\ Len(top) = Min2(2, Cardinality(ws))
            /\ \A i, j \in 1..Len(top) : i < j => top[i] # top[j] /\ k(top[i]) >= k(top[j])
            /\ \A w \in ws \ SeqToSet(top) : \A i \in 1..Len(top) : k(top[i]) >= k(w)}

\* the score without its cap
CapScoreNone(score) == score

\* return min(score, 99), razones
CapScore(score) == Min2(score, 99)

\* lines 328-335: the points and the reason of the common tags
TagPart(n1, n2, cfg) ==
    LET comunes == SortedTags(normalize_tagset(n1.tags) \cap normalize_tagset(n2.tags))
    IN  IF comunes # <<>>
        THEN [add |-> Min2(Len(comunes) * cfg.pts_per_tag, cfg.tags_cap),
              razones |-> <<[kind |-> "Common tags", n |-> Len(comunes),
                             names |-> FirstN(comunes, 3)]>>]
        ELSE [add |-> 0, razones |-> <<>>]

\* lines 337-349: the points of the common keywords
KeywordPart(p1, p2, cfg) ==
    LET comunes_kw == SeqToSet(p1) \cap SeqToSet(p2)
    IN  IF p1 # <<>> /\ p2 # <<>> /\ comunes_kw # {}
        THEN Min2(SumMinCounts(comunes_kw, p1, p2) * cfg.kw_pts, cfg.kw_cap)
        ELSE 0

\* tag_similarity(n1, n2, cfg)
TagSimilarity ==
    /\ t_pc = "start"
    /\ LET tags == TagPart(t_n1, t_n2, t_cfg)
           p1 == _extract_keywords(t_n1.contenido, t_cfg.kw_minlen)
           p2 == _extract_keywords(t_n2.contenido, t_cfg.kw_minlen)
           comunes_kw == SeqToSet(p1) \cap SeqToSet(p2)
       IN  /\ t_score' = CapScore(tags.add + KeywordPart(p1, p2, t_cfg))
           /\ IF comunes_kw # {}
              THEN \E top \in TopKeywords(comunes_kw, p1, p2) :
                      t_razones' = Append(tags.razones,
                                          [kind |-> "Common concepts", names |-> top])
              ELSE t_razones' = tags.razones
    /\ t_pc' = "done"
    /\ UNCHANGED <<t_n1, t_n2, t_cfg>>
    /\ UNCHANGED t_frame

MaxWords == 2    \* words of the contenido of n1

TagSets == {{}, {"x", "y"}, {"Ètica", "x", ""}, {"etica", "y", "x", "z"}}

RawWords == {"filosofia", "etica", "Etica,", "sobre", "art", "cultura"}

\* the contenido of n2: none, one keyword, keywords that repeat
Contents2 ==
    {<<>>, <<"etica">>, <<"filosofia", "filosofia", "etica", "sobre">>,
     <<"cultura", "filosofia", "etica", "art">>}

TagCfgs ==
    [pts_per_tag : {tags_points_per_common_tag, 40},
     tags_cap : {tags_max_points_from_tags},
     kw_minlen : {tags_keywords_min_len},
     kw_pts : {tags_keywords_points_per_overlap, 30},
     kw_cap : {tags_keywords_max_points}]

InitTags ==
    /\ PostprocessIdle
    /\ ValidatorIdle
    /\ LegacyIdle
    /\ AnalyzeIdle
    /\ ProcessIdle
    /\ SaveIdle
    /\ t_pc = "start"
    /\ t_n1 \in [tags : TagSets, contenido : SeqsUpTo(RawWords, MaxWords)]
    /\ t_n2 \in [tags : TagSets, contenido : Contents2]
    /\ t_cfg \in TagCfgs
    /\ t_score = 0
    /\ t_razones = <<>>

NextTags == TagSimilarity

SpecTags == InitTags /\ [][NextTags]_vars

----------------------------------------------------------------------------
(* Claims about postprocess_graph *)

EndpointSet(e) == {e.source, e.target}

\* the raw edges that name the same unordered pair of nodes as edge m
Contributors(m) ==
    {i \in 1..Len(raw_edges) :
        /\ EndpointSet(raw_edges[i]) = EndpointSet(m)
        /\ EndpointSet(raw_edges[i]) \subseteq g_nodes}

Flip(e) == [e EXCEPT !.source = e.target, !.target = e.source]

\* the run read exactly a raw edge between two distinct nodes and its reverse
TwoOrientations ==
    /\ pc = "done"
    /\ Len(raw_edges) = 2
    /\ raw_edges[1].source # raw_edges[1].target
    /\ EndpointSet(raw_edges[1]) \subseteq g_nodes
    /\ raw_edges[2] = Flip(raw_edges[1])

OtherOrder == postprocess_graph(g_nodes, <<raw_edges[2], raw_edges[1]>>, g_meta)

UnorderedView(m) ==
    [endpoints |-> EndpointSet(m), evidence |-> m.evidence,
     similarity |-> m.similarity, score |-> m.score, reasons |-> m.reasons]

OrderedView(m) ==
    [source |-> m.source, target |-> m.target, evidence |-> m.evidence,
     similarity |-> m.similarity, score |-> m.score, reasons |-> m.reasons]

RECURSIVE MaxOf(_)
MaxOf(S) ==
    LET x == CHOOSE y \in S : TRUE
    IN  IF S = {x} THEN x ELSE Max2(x, MaxOf(S \ {x}))

ContributedSims(m) == {Get(raw_edges[i], "similarity", None) : i \in Contributors(m)}

AllSimsInRange(m) == \A x \in ContributedSims(m) : IsNumber(x) /\ x \in 0..100

\* C2: at every point of the merge, and in the output, a merged edge whose
\* contributing raw edges all carry a similarity in 0..100 has the maximum of
\* those similarities, which lies in 0..100.
C2_SimilarityIsRunningMax ==
    /\ \A i \in 1..Len(merged) :
          AllSimsInRange(merged[i].entry) =>
             /\ merged[i].entry.similarity = MaxOf(ContributedSims(merged[i].entry))
             /\ merged[i].entry.similarity \in 0..100
    /\ pc = "done" =>
          \A i \in 1..Len(g_edges) :
             AllSimsInRange(g_edges[i]) =>
                g_edges[i].similarity = MaxOf(ContributedSims(g_edges[i]))

C2_Witness ==
    /\ pc = "done"
    /\ \E i \in 1..Len(g_edges) :
          /\ AllSimsInRange(g_edges[i])
          /\ Cardinality(Contributors(g_edges[i])) = 3
          /\ Get(raw_edges[1], "similarity", None) = 100
          /\ Get(raw_edges[2], "similarity", None) = 70
          /\ Get(raw_edges[3], "similarity", None) = 80
          /\ g_edges[i].similarity = 100

IdempotenceView(m) ==
    [endpoints |-> EndpointSet(m), evidence |-> m.evidence,
     similarity |-> m.similarity, score |-> m.score, reasons |-> m.reasons,
     directed |-> m.directed, dashes |-> m.dashes]

SecondPass == postprocess_graph(g_nodes, g_edges, g_meta)

\* C3 (as stated): postprocess_graph run again on its own output gives the
\* same edge set: the same pairs, each with the same evidence, similarity,
\* score, reasons, directed and dashes.
C3_Idempotent ==
    pc = "done" =>
        {IdempotenceView(SecondPass[i]) : i \in 1..Len(SecondPass)}
            = {IdempotenceView(g_edges[i]) : i \in 1..Len(g_edges)}

EdgesAt(n, edges) == {i \in 1..Len(edges) : n \in EndpointSet(edges[i])}

TopKActive == pc = "done" /\ g_meta.topk_per_node # None /\ g_meta.topk_per_node > 0

\* C4 (as stated): after top-K pruning with K > 0 no node is an endpoint of
\* more than K kept edges.
C4_AtMostKPerNode ==
    TopKActive =>
        \A n \in g_nodes : Cardinality(EdgesAt(n, g_edges)) <= g_meta.topk_per_node

\* C5: after top-K pruning with K > 0 the number of kept edges is at most
\* K times the number of nodes.
C5_KeptAtMostKTimesNodes ==
    TopKActive => Len(g_edges) <= g_meta.topk_per_node * Cardinality(g_nodes)

C5_Witness ==
    /\ TopKActive
    /\ g_meta.topk_per_node = 1
    /\ g_meta.min_similarity_kept = None
    /\ Len(new_edges) > Cardinality(g_nodes)
    /\ Len(g_edges) = Cardinality(g_nodes)

\* C6: the merged records, the final edges and the output of
\* postprocess_graph hold at most one edge per unordered pair of endpoints.
C6_OneEdgePerPair ==
    /\ \A i, j \in 1..Len(merged) :
          i # j => EndpointSet(merged[i].entry) # EndpointSet(merged[j].entry)
    /\ \A i, j \in 1..Len(new_edges) :
          i # j => EndpointSet(new_edges[i]) # EndpointSet(new_edges[j])
    /\ pc = "done" =>
          \A i, j \in 1..Len(g_edges) :
             i # j => EndpointSet(g_edges[i]) # EndpointSet(g_edges[j])

C6_Witness ==
    /\ pc = "done"
    /\ Len(raw_edges) = 3
    /\ EndpointSet(raw_edges[1]) \subseteq g_nodes
    /\ raw_edges[1].source < raw_edges[1].target
    /\ raw_edges[2].source = raw_edges[1].target
    /\ raw_edges[2].target = raw_edges[1].source
    /\ EndpointSet(raw_edges[3]) \subseteq g_nodes
    /\ EndpointSet(raw_edges[3]) # EndpointSet(raw_edges[1])
    /\ Len(g_edges) = 2

HasBothEndpoints(e) == EndpointSet(e) \subseteq g_nodes

\* C7: every merged record and every output edge has both endpoints among
\* the nodes, and the raw edges with an endpoint that is no node contribute
\* nothing: the merge is the merge of the other raw edges alone.
C7_EndpointsAreNodes ==
    /\ \A i \in 1..Len(merged) : HasBothEndpoints(merged[i].entry)
    /\ merged = MergeAll(g_nodes, <<>>, SelectSeq(raw_edges, HasBothEndpoints))
    /\ pc = "done" => \A i \in 1..Len(g_edges) : HasBothEndpoints(g_edges[i])

C7_Witness ==
    /\ pc = "done"
    /\ Len(raw_edges) = 3
    /\ raw_edges[1].target = NoNode /\ raw_edges[1].source \in g_nodes
    /\ HasBothEndpoints(raw_edges[2])
    /\ raw_edges[3].source = NoNode /\ raw_edges[3].target \in g_nodes
    /\ Len(g_edges) = 1

ContributedEvidence(m) == UNION {EvidenceSet(raw_edges[i]) : i \in Contributors(m)}

IsSortedEvidence(l) == \A i \in 1..(Len(l) - 1) : EvRank(l[i]) < EvRank(l[i + 1])

\* C8: the evidence of every output edge is a sorted list holding exactly
\* the union of the normalised evidence sets of the raw edges merged into
\* its pair.
C8_EvidenceIsUnion ==
    pc = "done" =>
        \A i \in 1..Len(g_edges) :
            /\ g_edges[i].evidence.t = "list"
            /\ SeqToSet(g_edges[i].evidence.v) = ContributedEvidence(g_edges[i])
            /\ IsSortedEvidence(g_edges[i].evidence.v)

C8_Witness ==
    /\ pc = "done"
    /\ Len(g_edges) = 1
    /\ Cardinality(Contributors(g_edges[1])) = 3
    /\ EvidenceSet(raw_edges[1]) = {"ai", "tags"}
    /\ EvidenceSet(raw_edges[2]) = {"explicit"}
    /\ EvidenceSet(raw_edges[3]) = {"ai"}
    /\ g_edges[1].evidence.v = <<"ai", "explicit", "tags">>

----------------------------------------------------------------------------
(* Claims about validate_graph *)

VSource(e) == Get(e, "source", None)
VTarget(e) == Get(e, "target", None)

\* the ids of the nodes of the input graph that are valid ids
PresentIds == {n \in SeqToSet(v_nodes) : n \in UuidIds \cup TagIds}

ValidId(x) == x \in UuidIds \cup TagIds

\* a self-loop on a valid id that is the id of a node
IsNodeSelfLoop(e) == VSource(e) = VTarget(e) /\ VSource(e) \in PresentIds

\* an endpoint is a well-formed id that is the id of no node
IsDangling(e) ==
    \/ ValidId(VSource(e)) /\ VSource(e) \notin PresentIds
    \/ ValidId(VTarget(e)) /\ VTarget(e) \notin PresentIds

HasInvalidId(e) == ~ValidId(VSource(e)) \/ ~ValidId(VTarget(e))

CountRead(P(_)) == Cardinality({i \in 1..Len(v_edges) : P(v_edges[i])})

\* C9: every self-loop on a node is removed and counted exactly once in
\* removed_selfloops, and neither cleaned nor the output holds an edge whose
\* source is its target.
C9_SelfLoopsRemovedAndCounted ==
    v_pc \in {"edges", "done"} =>
        /\ v_stats.removed_selfloops = CountRead(IsNodeSelfLoop)
        /\ \A i \in 1..Len(v_cleaned) : v_cleaned[i].source # v_cleaned[i].target
        /\ \A i \in 1..Len(v_out) : v_out[i].source # v_out[i].target

C9_Witness ==
    /\ v_pc = "done"
    /\ Len(v_edges) = 3
    /\ IsNodeSelfLoop(v_edges[1])
    /\ IsNodeSelfLoop(v_edges[3])
    /\ v_stats.removed_selfloops = 2
    /\ Len(v_out) = 1

DanglingOrInvalid(e) == IsDangling(e) \/ HasInvalidId(e)

\* C10: an edge with an endpoint that is a well-formed id of no node is
\* dropped and counted under removed_invalid_ids (which counts exactly the
\* edges with such an endpoint or with an invalid id), so every cleaned and
\* every output edge has both endpoints among the output nodes.
C10_DanglingEdgesDroppedAndCounted ==
    v_pc \in {"edges", "done"} =>
        /\ v_stats.removed_invalid_ids = CountRead(DanglingOrInvalid)
        /\ \A i \in 1..Len(v_cleaned) :
              {v_cleaned[i].source, v_cleaned[i].target} \subseteq SeqToSet(v_valid_nodes)
        /\ \A i \in 1..Len(v_out) :
              {v_out[i].source, v_out[i].target} \subseteq SeqToSet(v_valid_nodes)

C10_Witness ==
    /\ v_pc = "done"
    /\ Len(v_edges) = 3
    /\ IsDangling(v_edges[1]) /\ ~HasInvalidId(v_edges[1])
    /\ ~DanglingOrInvalid(v_edges[2])
    /\ IsDangling(v_edges[3]) /\ ~HasInvalidId(v_edges[3])
    /\ v_stats.removed_invalid_ids = 2
    /\ Len(v_out) = 1

\* the cleaned edges before deduplication: the normalised copies of the edges
\* read so far that passed the filter, in the order read
RECURSIVE CleanedOf(_)
CleanedOf(edges) ==
    IF edges = <<>> THEN <<>>
    ELSE LET rest == CleanedOf(SubSeq(edges, 1, Len(edges) - 1))
             e == edges[Len(edges)]
         IN  IF EdgeVerdict(v_node_ids, e, v_min_sim) = "kept"
             THEN Append(rest, CleanedEdge(e)) ELSE rest

\* the cleaned edges of the unordered pair of edge m
SamePair(cl, m) == {k \in 1..Len(cl) : EndpointSet(cl[k]) = EndpointSet(m)}

ReasonSet(e) == SeqToSet(Get(e, "reasons", <<>>))

\* C11: with dedup enabled, validate_graph returns at most one edge per
\* unordered endpoint pair (and one for every pair that has a cleaned edge);
\* the edge kept for a pair has the maximum similarity and the maximum score
\* of the cleaned edges of that pair, and its evidence and its reasons are the
\* unions of theirs.
C11_DedupMergesPairs ==
    (v_pc = "done" /\ v_dedup) =>
        LET cl == CleanedOf(v_edges)
        IN  /\ \A i, j \in 1..Len(v_out) :
                  EndpointSet(v_out[i]) = EndpointSet(v_out[j]) => i = j
            /\ \A k \in 1..Len(cl) :
                  \E i \in 1..Len(v_out) : EndpointSet(v_out[i]) = EndpointSet(cl[k])
            /\ \A i \in 1..Len(v_out) :
                  LET m == v_out[i]
                      C == SamePair(cl, m)
                      scores == {cl[k].score : k \in {x \in C : "score" \in DOMAIN cl[x]}}
                  IN  /\ C # {}
                      /\ m.similarity = MaxOf({cl[k].similarity : k \in C})
                      /\ IF scores = {} THEN "score" \notin DOMAIN m
                         ELSE m.score = MaxOf(scores)
                      /\ EvidenceItems(m) = UNION {EvidenceItems(cl[k]) : k \in C}
                      /\ ReasonSet(m) = UNION {ReasonSet(cl[k]) : k \in C}

\* three edges of one pair, in both orientations, were merged into one whose
\* similarity and score are not those of the first edge
C11_Witness ==
    /\ v_pc = "done"
    /\ v_dedup
    /\ Len(v_out) = 1
    /\ v_stats.dedup_merged = 2
    /\ v_edges[1].source # v_edges[2].source
    /\ v_edges[1] = WeakEdge(1, 2)
    /\ v_out[1].similarity = 90
    /\ v_out[1].score = 90
    /\ Cardinality(EvidenceItems(v_out[1])) = 3
    /\ Cardinality(ReasonSet(v_out[1])) = 2

\* the similarity the validator is to give an edge or a target: its own when
\* it has one, else its score (in hundredths) times 100 when the score is at
\* most 1, the rounded score when it is larger, and 0 without a usable score
SimilarityByRule(e) ==
    LET sim == Get(e, "similarity", None)
        sc == Get(e, "score", None)
    IN  IF sim # None THEN sim
        ELSE IF sc = None \/ sc = NotANumber THEN 0
        ELSE IF sc <= 100 THEN sc
        ELSE RoundDiv(sc, 100)

\* the edge passes the id, node and self-loop tests of validate_graph
PassesIdTests(e) == ~DanglingOrInvalid(e) /\ VSource(e) # VTarget(e)

\* the target of an item read by validate_legacy is a valid id, not its source
PassesTargetTests(r) ==
    ValidId(Get(r.item, "target_id", None)) /\ Get(r.item, "target_id", None) # r.src

\* the similarities of the members of l that pass P and are not below min_sim
RECURSIVE SimsKept(_, _, _, _)
SimsKept(l, P(_), Sim(_), min_sim) ==
    IF l = <<>> THEN <<>>
    ELSE LET rest == SimsKept(SubSeq(l, 1, Len(l) - 1), P, Sim, min_sim)
             x == l[Len(l)]
         IN  IF P(x) /\ Sim(x) >= min_sim THEN Append(rest, Sim(x)) ELSE rest

ItemSimilarityByRule(r) == SimilarityByRule(r.item)

RECURSIVE FixedOf(_)
FixedOf(out) == IF out = <<>> THEN <<>> ELSE Head(out).fixed \o FixedOf(Tail(out))

\* the items validate_legacy has kept so far
KeptItems == FixedOf(l_out) \o (IF l_pc = "items" THEN l_fixed ELSE <<>>)

SimsOf(l) == [i \in 1..Len(l) |-> l[i].similarity]

\* C12: in validate_graph and in validate_legacy an edge or target with no
\* similarity gets one derived from its score (score <= 1 times 100, a larger
\* score as it is, 0 without a usable score), exactly the edges and targets
\* whose similarity is not below min_sim are kept (among those that pass the
\* id tests), and every output similarity is an integer >= min_sim.
C12_SimilarityDerivedAndFiltered ==
    /\ v_pc = "edges" =>
          /\ SimsOf(v_cleaned) = SimsKept(v_edges, PassesIdTests, SimilarityByRule, v_min_sim)
          /\ v_stats.removed_low_sim =
                Cardinality({i \in 1..Len(v_edges) :
                    PassesIdTests(v_edges[i]) /\ SimilarityByRule(v_edges[i]) < v_min_sim})
    /\ v_pc = "done" =>
          \A i \in 1..Len(v_out) :
              v_out[i].similarity \in Int /\ v_out[i].similarity >= v_min_sim
    /\ l_pc \in {"sources", "items", "done"} =>
          /\ SimsOf(KeptItems) =
                SimsKept(l_read, PassesTargetTests, ItemSimilarityByRule, l_min_sim)
          /\ \A i \in 1..Len(KeptItems) :
                KeptItems[i].similarity \in Int /\ KeptItems[i].similarity >= l_min_sim

\* validate_graph kept an edge with a score of 80.5 and no similarity and
\* dropped one with a score of 0.5 and one with no usable score
C12_Witness ==
    /\ v_pc = "done"
    /\ v_min_sim = 55
    /\ ~v_dedup
    /\ Len(v_edges) = 3
    /\ v_edges[1] = ScoredEdge(1, 2)
    /\ v_edges[2] = [source |-> 1, target |-> 2, score |-> 8050]
    /\ v_edges[3] = [source |-> 1, target |-> 2]
    /\ v_stats.removed_low_sim = 2
    /\ SimsOf(v_out) = <<80>>

----------------------------------------------------------------------------
(* Claims about analyze_ai *)

\* analyze_ai returned after a response that is a JSON array of one item
\* {id, similarity, reason} whose id is that of a pending candidate, whose
\* similarity is an integer in 0..100 and whose reason passes reason_ok
WellFormedSingle ==
    /\ a_pc = "done"
    /\ a_response.kind = "array"
    /\ Len(a_response.items) = 1
    /\ DOMAIN a_response.items[1] = {"id", "similarity", "reason"}
    /\ ~a_response.items[1].id.br
    /\ a_response.items[1].id.u \in SeqToSet(a_pendents)
    /\ a_response.items[1].similarity \in 0..100
    /\ parser_reason_ok(a_response.items[1].reason, a_stops)

\* the one item of the response as analyze_ai is to return it: same id, same
\* value, same words of the reason
SingleAccepted ==
    <<[id |-> a_response.items[1].id.u,
       score |-> 100 * a_response.items[1].similarity,
       reason |-> Str(a_response.items[1].reason.words)]>>

\* C13 as stated: for a well-formed array of one item with a pending id, a
\* similarity in 0..100 and a reason that passes reason_ok, analyze_ai returns
\* exactly that item.
C13_RoundTrip == WellFormedSingle => a_result = SingleAccepted

\* C13: for a well-formed array of one item with a pending id, a similarity
\* in MIN_SIM..100 and a reason that passes reason_ok, analyze_ai returns
\* exactly one item with the same id, the same value and the same reason up
\* to whitespace.
C13_RoundTripFromMinSim ==
    (WellFormedSingle /\ a_response.items[1].similarity >= MIN_SIM)
        => a_result = SingleAccepted

\* the item with similarity MIN_SIM and a reason with extra whitespace came
\* back, on the second attempt, with the whitespace normalised
C13_Witness ==
    /\ a_pc = "done"
    /\ a_hist = <<"Timeout", "accepted">>
    /\ a_response = [kind |-> "array",
                     items |-> <<PromptItem(2, 65, PaddedStr(GoodWords))>>]
    /\ a_result = <<[id |-> 2, score |-> 6500, reason |-> Str(GoodWords)]>>

\* the content words of a reason: 3 letters or more, no stopword
NumContentWords(reason) ==
    Cardinality({i \in 1..Len(reason.words) :
        reason.words[i] \notin a_stops /\ reason.words[i] \notin TwoLetterWords})

\* C14: no item analyze_ai returns, from the primary or from the secondary
\* parse, has a reason with fewer than MIN_CONTENT_WORDS content words,
\* whatever its similarity.
C14_NoReasonWithFewContentWords ==
    a_pc = "done" =>
        \A i \in 1..Len(a_result) :
            NumContentWords(a_result[i].reason) >= MIN_CONTENT_WORDS

\* the secondary parse was given an item of similarity 90 whose reason has
\* too few content words, and one with a good reason: only the second is
\* returned
C14_Witness ==
    /\ a_pc = "done"
    /\ a_stops = {"que"}
    /\ a_response = [kind |-> "array",
                     items |-> <<OtherItem(1, 90, Str(FewContentWords)),
                                 OtherItem(1, 90, Str(GoodWords))>>]
    /\ Len(a_result) = 1
    /\ a_result[1].metodo = "ia"
    /\ a_result[1].reason = Str(GoodWords)

\* C15: every item analyze_ai returns has the id of a candidate that is not
\* in ids_ja_trobats.
C15_IdsArePendingCandidates ==
    a_pc = "done" =>
        \A i \in 1..Len(a_result) :
            a_result[i].id \in SeqToSet(Candidatos) \ a_found

\* the response named a candidate found already and a UUID of no candidate
\* besides a pending candidate: only the last is returned
C15_Witness ==
    /\ a_pc = "done"
    /\ a_found = {3}
    /\ a_response = [kind |-> "array",
                     items |-> <<OtherItem(3, 90, Str(GoodWords)),
                                 OtherItem(1, 90, Str(GoodWords))>>]
    /\ Len(a_result) = 1
    /\ a_result[1].id = 1

\* C16: once candidates are pending analyze_ai never raises: whatever each
\* call of the AI service gives or raises, it returns a list, and the list is
\* empty when the last call gave no accepted connection.
C16_NeverRaises ==
    /\ a_pc # "raised"
    /\ a_pc = "done" =>
          /\ DOMAIN a_result = 1..Len(a_result)
          /\ (a_hist = <<>> \/ a_hist[Len(a_hist)] # "accepted") => a_result = <<>>

\* three calls raised a timeout, another exception and a connection error,
\* and analyze_ai returned []
C16_Witness ==
    /\ a_pc = "done"
    /\ a_hist = <<"Timeout", "Exception", "ConnectionError">>
    /\ a_last_err = "ConnectionError"
    /\ a_result = <<>>

Failed(kind) == kind \in {"Timeout", "ConnectionError", "Exception"}

\* the attempts after which the code is to sleep: the failed ones but the last
RECURSIVE SleepsDue(_, _)
SleepsDue(hist, k) ==
    IF hist = <<>> THEN <<>>
    ELSE (IF Failed(Head(hist)) /\ k < AI_MODEL_RETRIES
          THEN <<[after |-> k, exp |-> k]>> ELSE <<>>)
         \o SleepsDue(Tail(hist), k + 1)

\* C17: one invocation of analyze_ai calls the AI service at most
\* AI_MODEL_RETRIES + 1 times and then terminates; after the failure of
\* attempt k it sleeps AI_MODEL_BACKOFF to the power k before the retry, and
\* it does not sleep after the last attempt.
C17_BoundedCallsAndBackoff ==
    /\ [](/\ Len(a_hist) <= AI_MODEL_RETRIES + 1
          /\ a_sleeps = SleepsDue(a_hist, 0))
    /\ <>(a_pc = "done")

\* three calls failed; analyze_ai slept 1 and BACKOFF seconds and returned
C17_Witness ==
    /\ a_pc = "done"
    /\ Len(a_hist) = AI_MODEL_RETRIES + 1
    /\ \A i \in 1..Len(a_hist) : Failed(a_hist[i])
    /\ a_sleeps = <<[after |-> 0, exp |-> 0], [after |-> 1, exp |-> 1]>>

----------------------------------------------------------------------------
(* Claims about save_graph, save_json and process() *)

DestPath == [name |-> "OUT_JSON", tmp |-> FALSE]

TmpPath == [name |-> "OUT_JSON", tmp |-> TRUE]

\* C18: save_graph and save_json write the whole JSON text to the temporary
\* path, flush and fsync it, and only then rename it over the destination: at
\* every step, a failed one included, the destination holds no file or a
\* complete one, and it changes only by the rename, from the file it held to
\* the complete, synced file of the data being saved.
C18_DestinationNeverPartial ==
    /\ [](fs[DestPath] = NoFile \/ (fs[DestPath].exists /\ fs[DestPath].chunks = NumChunks))
    /\ [][fs'[DestPath] # fs[DestPath] =>
            /\ s_pc = "replace"
            /\ fs[TmpPath] = File(s_data, NumChunks, TRUE)
            /\ fs'[DestPath] = File(s_data, NumChunks, TRUE)]_vars

\* json.dump failed inside save_graph after a part of the text had reached
\* the temporary file: the destination still holds the file of the earlier run
C18_Witness ==
    /\ s_fn = "save_graph"
    /\ s_pc = "done"
    /\ s_err = "dump"
    /\ fs[TmpPath].exists
    /\ fs[TmpPath].chunks > 0
    /\ fs[TmpPath].chunks < NumChunks
    /\ fs[DestPath] = File(OldGraph, NumChunks, TRUE)

\* C19: when a step of save_graph fails, the error is logged and raised to
\* the caller, and process() does not go on to convert_for_sigma().
C19_SaveFailureAbortsRun ==
    (s_fn = "save_graph" /\ s_pc = "done" /\ s_err # "None")
        => (s_log = "exception" /\ s_raised /\ p_pc # "sigma")

\* C20: the graph process() gives to save_graph after validate_graph returned
\* has the _meta block attached before the validation.
C20_SavedGraphHasMeta ==
    (s_fn = "save_graph" /\ s_pc # "idle" /\ p_pc = "saving")
        => /\ "_meta" \in DOMAIN s_data
           /\ s_data._meta.min_similarity_kept = cfg_min_similarity_kept
           /\ s_data._meta.topk_per_node = cfg_topk_per_node

----------------------------------------------------------------------------
(* Claims about tag_similarity *)

\* the normalized tags the two notes share
SharedTags == normalize_tagset(t_n1.tags) \cap normalize_tagset(t_n2.tags)

\* how often the two notes share a keyword: each occurrence in n1 paired with
\* one in n2
KeywordFrequency ==
    LET p1 == _extract_keywords(t_n1.contenido, t_cfg.kw_minlen)
        p2 == _extract_keywords(t_n2.contenido, t_cfg.kw_minlen)
        Paired(i) == Cardinality({j \in 1..i : p1[j] = p1[i]}) <= Count(p2, p1[i])
    IN  Cardinality({i \in 1..Len(p1) : Paired(i)})

\* C21: tag_similarity returns a score that is at most 99 and equals
\* min(min(shared tags * points per tag, cap from tags)
\*     + min(keyword frequency * points per overlap, cap from keywords), 99).
C21_ScoreIsCappedSum ==
    t_pc = "done" =>
        /\ t_score <= 99
        /\ t_score =
             Min2(Min2(Cardinality(SharedTags) * t_cfg.pts_per_tag, t_cfg.tags_cap)
                  + Min2(KeywordFrequency * t_cfg.kw_pts, t_cfg.kw_cap), 99)

\* two notes share the tags x and y and no keyword; with 25 points a tag and
\* at most 50 from tags the score is 50 and the reason names both tags
C21_Witness ==
    /\ t_pc = "done"
    /\ t_n1.tags = {"x", "y"}
    /\ t_n2.tags = {"x", "y"}
    /\ KeywordFrequency = 0
    /\ t_cfg.pts_per_tag = 25
    /\ t_cfg.tags_cap = 50
    /\ t_score = 50
    /\ t_razones = <<[kind |-> "Common tags", n |-> 2, names |-> <<"x", "y">>]>>

----------------------------------------------------------------------------
(* Claims about the merge step of postprocess_graph *)

\* a raw edge whose evidence is exactly {explicit} and which carries no
\* numeric similarity
ExplicitWithoutSimilarity(e) ==
    /\ EvidenceSet(e) = {"explicit"}
    /\ ~IsNumber(Get(e, "similarity", None))

\* C22 (as stated): a raw edge whose evidence is exactly {explicit} and which
\* has no numeric similarity seeds its merged record with similarity 100, and
\* raises the similarity of an existing record to 100: a record with such a
\* contributor has similarity 100.
C22_ExplicitWithoutSimilarityGives100 ==
    \A i \in 1..Len(merged) :
        (\E k \in Contributors(merged[i].entry) : ExplicitWithoutSimilarity(raw_edges[k]))
            => merged[i].entry.similarity = 100

\* the reason of a raw edge after the backfill from the overlaps of its two
\* notes: "<reason> – tags comuns: t1, t2; projectes comuns: p1"
BackfillOf(e) ==
    LET tags_overlap == compute_overlap(NodeTags(e.source), NodeTags(e.target))
        proj_overlap == compute_project_overlap(NodeProjects(e.source),
                                                NodeProjects(e.target))
        projects == CHOOSE l \in SeqsUpTo(proj_overlap, 1) :
                        Len(l) = Min2(1, Cardinality(proj_overlap))
    IN  normalize_text(Get(e, "reason", <<>>))
        \o (IF tags_overlap # {}
            THEN <<"tags", "comuns">> \o FirstN(SortedTags(tags_overlap), 2) ELSE <<>>)
        \o (IF proj_overlap # {} THEN <<"projectes", "comuns">> \o projects ELSE <<>>)

\* a raw edge between two nodes whose evidence is exactly {ai} and whose
\* reason fails the check before and after the backfill
PoorAiEdge(e) ==
    /\ HasBothEndpoints(e)
    /\ EvidenceSet(e) = {"ai"}
    /\ ~reason_ok(normalize_text(Get(e, "reason", <<>>)))
    /\ ~reason_ok(BackfillOf(e))

NotPoorAiEdge(e) == ~PoorAiEdge(e)

\* C23 (as stated): a raw edge whose evidence is exactly {ai} and whose
\* reason fails the check, also after the backfill from the tag and project
\* overlaps, is dropped: the merged records are those of the other raw edges.
C23_PoorAiEdgeIsDropped ==
    merged = MergeAll(g_nodes, <<>>, SelectSeq(raw_edges, NotPoorAiEdge))

\* C28: every edge postprocess_graph returns is dashed if and only if the
\* evidence merged for its pair is exactly {ai}: an edge whose first raw edge
\* was an AI one is solid once a raw edge with other evidence is merged in.
C28_DashedIffOnlyAi ==
    pc = "done" =>
        \A i \in 1..Len(g_edges) :
            /\ g_edges[i].dashes = (SeqToSet(g_edges[i].evidence.v) = {"ai"})
            /\ g_edges[i].dashes = (ContributedEvidence(g_edges[i]) = {"ai"})

\* an AI edge, then an explicit edge of the same pair, then an AI edge of
\* another pair: the first pair is solid, the second dashed
C28_Witness ==
    /\ pc = "done"
    /\ Len(raw_edges) = 3
    /\ raw_edges[1] = AiEdge(1, 2)
    /\ raw_edges[2] = ExplicitEdge(2, 1)
    /\ raw_edges[3] = AiEdge(2, 3)
    /\ Len(g_edges) = 2
    /\ ~g_edges[1].dashes
    /\ g_edges[2].dashes

\* the raw edge list with the edges at i and i + 1 exchanged; every
\* permutation of a list is a sequence of such exchanges
SwapAt(l, i) ==
    [k \in 1..Len(l) |-> IF k = i THEN l[i + 1] ELSE IF k = i + 1 THEN l[i] ELSE l[k]]

\* an output edge without the order of its reasons; the two endpoints are
\* compared as a pair, and the end the arrow leaves only where the edge is
\* directed
PermutationView(m) ==
    [pair |-> {m.source, m.target},
     from |-> IF m.directed THEN m.source ELSE NoNode,
     evidence |-> m.evidence,
     similarity |-> m.similarity, score |-> m.score,
     tags_overlap |-> m.tags_overlap, project_overlap |-> m.project_overlap,
     directed |-> m.directed, dashes |-> m.dashes,
     reasons |-> SeqToSet(m.reasons)]

PermutationViews(edges) == {PermutationView(edges[i]) : i \in 1..Len(edges)}

\* C26 (as stated): without pruning, the set of edges postprocess_graph
\* returns is the same for every permutation of the raw edge list: the same
\* endpoints, evidence, similarity, score, overlaps, directed and dashes; only
\* the order of the reasons of an edge may differ.
C26_SameForEveryPermutation ==
    pc = "done" =>
        \A i \in 1..(Len(raw_edges) - 1) :
            PermutationViews(postprocess_graph(g_nodes, SwapAt(raw_edges, i), g_meta))
                = PermutationViews(g_edges)

----------------------------------------------------------------------------
(* Claims about the retries of analyze_ai *)

TransportFailure(kind) == kind \in {"Timeout", "ConnectionError"}

\* C25 (as stated): analyze_ai calls the AI service again only after a
\* transport failure (timeout or connection error); after a failure of any
\* other kind, or after a response in which neither parse accepts an item, it
\* returns [] without another call.
C25_RetryOnlyAfterTransportFailure ==
    /\ \A i \in 2..Len(a_hist) : TransportFailure(a_hist[i - 1])
    /\ (/\ a_hist # <<>>
        /\ a_hist[Len(a_hist)] \in {"Exception", "empty"}) =>
            (a_pc = "done" /\ a_result = <<>>)

----------------------------------------------------------------------------
(* Claims about the minimum-similarity step of postprocess_graph *)

TopKInactive == g_meta.topk_per_node = None \/ g_meta.topk_per_node <= 0

\* C27: when _meta gives a minimum similarity, no edge that postprocess_graph
\* keeps has a similarity that is present and below the minimum; an edge whose
\* similarity is absent passes the minimum-similarity step whatever the
\* minimum (seen in the output when the top-K step is off, the output being
\* then the result of that step).
C27_MinSimilarityKeepsAbsent ==
    (pc = "done" /\ g_meta.min_similarity_kept # None) =>
        /\ \A i \in 1..Len(g_edges) :
              \/ g_edges[i].similarity = None
              \/ g_edges[i].similarity >= g_meta.min_similarity_kept
        /\ TopKInactive =>
              \A i \in 1..Len(new_edges) :
                  (\/ new_edges[i].similarity = None
                   \/ new_edges[i].similarity >= g_meta.min_similarity_kept)
                      => new_edges[i] \in SeqToSet(g_edges)

\* minimum 85 and no top-K: of three merged edges with similarity absent, 80
\* and 90, the one of 80 is dropped and the two others are kept
C27_Witness ==
    /\ pc = "done"
    /\ g_meta = [min_similarity_kept |-> 85, topk_per_node |-> None]
    /\ Len(new_edges) = 3
    /\ new_edges[1].similarity = None
    /\ new_edges[2].similarity = 80
    /\ new_edges[3].similarity = 90
    /\ g_edges = <<new_edges[1], new_edges[3]>>

----------------------------------------------------------------------------
(* Claims about the statistics and the idempotence of validate_graph *)

\* C29: with dedup on or off, the statistics validate_graph returns account
\* for each edge of the input exactly once: total_edges, the length of the
\* input list, is kept_edges + removed_invalid_ids + removed_selfloops +
\* removed_low_sim + dedup_merged.
C29_StatsAccountForEveryEdge ==
    v_pc = "done" =>
        /\ v_stats.total_edges = Len(v_edges)
        /\ v_stats.kept_edges = Len(v_out)
        /\ v_stats.total_edges =
              v_stats.kept_edges + v_stats.removed_invalid_ids
                + v_stats.removed_selfloops + v_stats.removed_low_sim
                + v_stats.dedup_merged

\* of three edges one was below min_sim, one was merged into another of its
\* pair, and one edge is returned
C29_Witness ==
    /\ v_pc = "done"
    /\ v_dedup
    /\ v_stats.total_edges = 3
    /\ v_stats.removed_low_sim = 1
    /\ v_stats.dedup_merged = 1
    /\ v_stats.kept_edges = 1

\* validate_graph applied to the graph it returned, with the same min_sim
\* and dedup: lines 127-135, 139-175 and 177-191 over v_valid_nodes and v_out
ValidateAgain ==
    LET valid_nodes == SelectSeq(v_valid_nodes, is_uuid)
        node_ids == {n \in SeqToSet(v_valid_nodes) : is_uuid(n)}
        Verdict(i) == EdgeVerdict(node_ids, v_out[i], v_min_sim)
        kept == SelectSeq(v_out, LAMBDA e : EdgeVerdict(node_ids, e, v_min_sim) = "kept")
        cleaned == [i \in 1..Len(kept) |-> CleanedEdge(kept[i])]
        d == IF v_dedup THEN Dedup(cleaned, <<>>, 0)
             ELSE [edges |-> cleaned, merged |-> 0]
        Removed(verdict) == Cardinality({i \in 1..Len(v_out) : Verdict(i) = verdict})
    IN  [nodes |-> valid_nodes, edges |-> d.edges,
         removed_invalid_ids |-> Removed("removed_invalid_ids"),
         removed_selfloops |-> Removed("removed_selfloops"),
         removed_low_sim |-> Removed("removed_low_sim"),
         dedup_merged |-> d.merged]

\* C30: validate_graph is idempotent: applied with the same min_sim and dedup
\* to the graph it returned, it returns the same nodes and the same edges, and
\* removed_invalid_ids, removed_selfloops, removed_low_sim and dedup_merged
\* are all zero on this second pass.
C30_ValidateIsIdempotent ==
    v_pc = "done" =>
        ValidateAgain = [nodes |-> v_valid_nodes, edges |-> v_out,
                      removed_invalid_ids |-> 0, removed_selfloops |-> 0,
                      removed_low_sim |-> 0, dedup_merged |-> 0]

\* a first pass with min_sim 55 that dropped a node, removed a self-loop,
\* kept an edge whose similarity it derived from the score, and merged an
\* edge of the same pair into it
C30_Witness ==
    /\ v_pc = "done"
    /\ v_dedup
    /\ v_min_sim = 55
    /\ Len(v_valid_nodes) < Len(v_nodes)
    /\ v_stats.removed_selfloops = 1
    /\ v_stats.dedup_merged = 1
    /\ Len(v_out) = 1
    /\ "similarity" \notin DOMAIN v_edges[1]
    /\ v_out[1].similarity = 90

----------------------------------------------------------------------------
(* Claims about pruning in process() *)

\* the pruning parameters process() takes from the configuration
ConfiguredMeta ==
    [min_similarity_kept |-> cfg_min_similarity_kept,
     topk_per_node |-> cfg_topk_per_node]

\* C24 (as stated): in a run of process() the merged edges are pruned by the
\* configured min_similarity_kept and topk_per_node once, after all merging
\* and before the graph is validated and saved: the edges given to
\* validate_graph are the merged edges pruned with the configured values.
C24_PrunedBeforeValidation ==
    (p_pc = "validate" /\ pc = "done") =>
        SeqToSet(p_graph.edges) = SeqToSet(Prune(new_edges, ConfiguredMeta))

====
